---- MODULE Spec2Model ----
(***************************************************************************)
(* Model of the SEthernet / SEthernet/30 driver core: the receive-ring     *)
(* walker (handlePacket), the two-phase interrupt dispatcher (driverISR /  *)
(* userISR) and the transmit entry (doEWrite), for the two variants of the *)
(* interrupt code in the repository:                                       *)
(*   "part_000"  src/unnamed/part_000        (the later isr.c)             *)
(*   "isr_c"     src/software/driver/isr.c   (the earlier isr.c)           *)
(* The ENC624J600 controller is the environment: frames arrive, transmits  *)
(* end, the link changes, at any moment between two steps of the CPU.      *)
(***************************************************************************)
EXTENDS Integers, Sequences, FiniteSets, TLC

(***************************************************************************)
(* Program constants                                                       *)
(***************************************************************************)
numberOfPhs == 16
numberofMulticasts == 8
phProtocolPhaseII == 0
phProtocolFree == 1
ENC_TX_BUF_START == 0
ENC_RX_BUF_START == 1536
ENC_RX_BUF_SIZE == 23040
sizeofEthernetHeader == 14
ENC624J600_BASE == 8388608

nil == 0
noErr == 0
excessCollsns == -95
eLenErr == -92

(***************************************************************************)
(* Bounds of the model                                                     *)
(***************************************************************************)
MaxHwEvents == 1
MaxWrites == 2

Variants == {"part_000", "isr_c"}

(***************************************************************************)
(* 16-bit helpers                                                          *)
(***************************************************************************)
U16(x) == x % 65536

\* SWAPBYTES: exchange the two bytes of a 16-bit word
SWAPBYTES(w) == (w % 256) * 256 + (w \div 256)

\* What the big-endian CPU reads where the controller stored v little-endian
StoredLE(v) == (v % 256) * 256 + (v \div 256)

\* enc624j600_addr_to_ptr / the pointer handed to enc624j600_update_rxptr,
\* and the controller offset that update_rxptr programs from it. The
\* translation wraps: the offset is taken modulo the size of the receive
\* region, relative to the start of the receive buffer
enc624j600_addr_to_ptr(base, addr) ==
    base + ENC_RX_BUF_START
         + ((addr - ENC_RX_BUF_START) % ENC_RX_BUF_SIZE)
enc624j600_ptr_to_addr(base, ptr) == ptr - base

(***************************************************************************)
(* Receive status vector and descriptor as read from the ring              *)
(***************************************************************************)
RSV_BIT_CRC_ERR == "crcErr"
RSV_BIT_UNICAST == "unicast"
RSV_BIT_BROADCAST == "broadcast"
RSV_BIT_MULTICAST == "multicast"
RSV_BIT_HASH_MATCH == "hashMatch"
RsvBits ==
    {RSV_BIT_CRC_ERR, RSV_BIT_UNICAST, RSV_BIT_BROADCAST, RSV_BIT_MULTICAST,
     RSV_BIT_HASH_MATCH}

RSV_BIT(rsv, bit) == bit \in rsv.bits

\* Addresses: the one registered multicast address and one that is not
\* registered (and collides with it in the hash filter)
McastA == "mcastA"
McastB == "mcastB"
NoAddr == "none"

\* Handler capabilities (entry points of protocol handlers)
HandlerProcs == {4096, 8192}

\* Status-vector byte lengths (FCS included) around every threshold
RxLengths == {0, 3, 4, 63, 64, 1518, 1519, 65535}
RxProtocols == {512, 2048}
RxNextPkts == {1536, 3000}

MkFrame(bits, len, dest, proto, next) ==
    [nextPkt_le |-> StoredLE(next),
     rsv |-> [bits |-> bits, pkt_len_le |-> StoredLE(len)],
     dest |-> dest,
     protocol |-> proto,
     hw |-> [len |-> len, next |-> next]]

RxFrames ==
    {MkFrame(b, l, d, p, n) :
        b \in SUBSET RsvBits, l \in RxLengths, d \in {McastA, McastB},
        p \in RxProtocols, n \in RxNextPkts}

\* The frames the interrupt-path specification draws from: one per outcome
IsrFrames ==
    {MkFrame({RSV_BIT_UNICAST}, 64, McastA, 512, 3000),
     MkFrame({RSV_BIT_CRC_ERR}, 64, McastA, 2048, 1536)}

\* The frame that arrives behind the first one in the receive-path
\* specification
RxMoreFrames == {MkFrame({RSV_BIT_BROADCAST}, 64, McastA, 2048, 1536)}

\* enc624j600_read_rx_fifo_level: the bytes the queued frames occupy, each
\* with its 8 bytes of next-pointer and status vector
RECURSIVE enc624j600_read_rx_fifo_level(_)
enc624j600_read_rx_fifo_level(frames) ==
    IF frames = <<>> THEN 0
    ELSE U16(8 + SWAPBYTES(Head(frames).rsv.pkt_len_le)
             + enc624j600_read_rx_fifo_level(Tail(frames)))

(***************************************************************************)
(* Protocol Handler Registry and Multicast Filter Table (read side)        *)
(***************************************************************************)
FreeSlot == [ethertype |-> phProtocolFree, handler |-> nil]

\* InitPHTable: every slot free
InitPHTable == [i \in 1..numberOfPhs |-> FreeSlot]

\* The table after attaching the listed <<ethertype, handler>> pairs in order
PHTableOf(pairs) ==
    [i \in 1..numberOfPhs |->
        IF i <= Len(pairs)
        THEN [ethertype |-> pairs[i][1], handler |-> pairs[i][2]]
        ELSE FreeSlot]

\* findPH: linear scan, the slot index or nil
findPH(table, id) ==
    IF \E i \in 1..numberOfPhs : table[i].ethertype = id
    THEN CHOOSE i \in 1..numberOfPhs :
            /\ table[i].ethertype = id
            /\ \A j \in 1..(i - 1) : table[j].ethertype # id
    ELSE nil

EmptyMulticast == [address |-> NoAddr, refCount |-> 0]

MulticastTableOf(addrs) ==
    [i \in 1..numberofMulticasts |->
        IF i <= Len(addrs)
        THEN [address |-> addrs[i], refCount |-> 1]
        ELSE EmptyMulticast]

\* findMulticastEntry: exact-match lookup among the occupied slots
findMulticastEntry(table, addr) ==
    \E i \in 1..numberofMulticasts :
        table[i].refCount > 0 /\ table[i].address = addr

\* Multicast addresses the control calls name: McastC falls on another bit
\* of the hash filter than McastA and McastB, which share one
McastC == "mcastC"
McastFill == {"mcastF1", "mcastF2", "mcastF3", "mcastF4", "mcastF5",
              "mcastF6", "mcastF7"}
McastAddrs == {McastA, McastB, McastC} \cup McastFill

\* The bit of the 64-bit hash filter an address selects
hashBit(addr) ==
    CASE addr = McastA -> 5
      [] addr = McastB -> 5
      [] addr = McastC -> 9
      [] addr = "mcastF1" -> 17
      [] addr = "mcastF2" -> 18
      [] addr = "mcastF3" -> 19
      [] addr = "mcastF4" -> 20
      [] addr = "mcastF5" -> 21
      [] addr = "mcastF6" -> 22
      [] addr = "mcastF7" -> 23

\* The hash filter computed from the occupied slots of the table
hashOf(table) ==
    {hashBit(table[i].address) :
        i \in {j \in 1..numberofMulticasts : table[j].refCount > 0}}

\* dCtlStorage once driverOpen has allocated the globals
theGlobals == 4194304

\* Protocol identifiers the control calls and the tables name
PhFillIds == 24577..24591
PhIds == {phProtocolPhaseII, 512, 2048, 2054} \cup PhFillIds
NoMatch == -1

\* What the callers hold after the calls that built the two tables
RegOf(ptab, mtab) ==
    [ph |-> [id \in PhIds |->
                IF findPH(ptab, id) = nil THEN NoMatch
                ELSE ptab[findPH(ptab, id)].handler],
     mc |-> [a \in McastAddrs |->
                IF \E i \in 1..numberofMulticasts : mtab[i].address = a
                THEN mtab[CHOOSE i \in 1..numberofMulticasts :
                            mtab[i].address = a].refCount
                ELSE 0]]

(***************************************************************************)
(* Statistics block                                                        *)
(***************************************************************************)
InfoFields ==
    {"rxPendingPacketsHWM", "rxPendingBytesHWM", "fcsErrors", "rxRunt",
     "rxTooLong", "broadcastRxFrameCount", "multicastRxFrameCount",
     "rxUnwanted", "rxUnknownProto", "rxFrameCount", "deferredFrames",
     "collisionFrames", "singleCollisionFrames", "multiCollisionFrames",
     "txFrameCount", "excessiveDeferrals", "excessiveCollisions",
     "lateCollisions", "internalTxErrors", "internalRxErrors"}

ZeroInfo == [f \in InfoFields |-> 0]

Bump(inf, field) == [inf EXCEPT ![field] = @ + 1]

\* Mutant: the marks are overwritten with the latest reading
recordFifoStats_Latest(inf, packetsPending, bytesPending) ==
    [inf EXCEPT !.rxPendingPacketsHWM = packetsPending,
                !.rxPendingBytesHWM = bytesPending]

\* "Record some FIFO stats": the two high-water marks
recordFifoStats(inf, packetsPending, bytesPending) ==
    LET i1 == IF packetsPending > inf.rxPendingPacketsHWM
              THEN [inf EXCEPT !.rxPendingPacketsHWM = packetsPending]
              ELSE inf
    IN  IF bytesPending > i1.rxPendingBytesHWM
        THEN [i1 EXCEPT !.rxPendingBytesHWM = bytesPending]
        ELSE i1

(***************************************************************************)
(* handlePacket, src/unnamed/part_000                                      *)
(***************************************************************************)
\* pktLen = SWAPBYTES(rsv.pkt_len_le) - 4, kept in an unsigned short
pktLen_p0(rsv) == U16(SWAPBYTES(rsv.pkt_len_le) - 4)

\* Mutant: the CRC-error check left out
lengthChecks_p0_NoCrc(rsv, pktLen) ==
    IF pktLen < 60 THEN "rxRunt"
    ELSE IF pktLen > 1514 THEN "rxTooLong"
    ELSE "pass"

\* The CRC / runt / too-long checks: the counter to bump, or "pass"
lengthChecks_p0(rsv, pktLen) ==
    IF RSV_BIT(rsv, RSV_BIT_CRC_ERR) THEN "fcsErrors"
    ELSE IF pktLen < 60 THEN "rxRunt"
    ELSE IF pktLen > 1514 THEN "rxTooLong"
    ELSE "pass"

\* "Sanity-check our receive filters": <<accepted, counter to bump or "">>
filterCheck_p0(rsv, mtab, dest) ==
    IF RSV_BIT(rsv, RSV_BIT_UNICAST) THEN <<TRUE, "">>
    ELSE IF RSV_BIT(rsv, RSV_BIT_BROADCAST)
         THEN <<TRUE, "broadcastRxFrameCount">>
    ELSE IF RSV_BIT(rsv, RSV_BIT_MULTICAST) /\ RSV_BIT(rsv, RSV_BIT_HASH_MATCH)
         THEN <<TRUE, "multicastRxFrameCount">>
    ELSE <<FALSE, "rxUnwanted">>

\* Mutant: the literal protocol field is looked up whatever its value
lookupPH_p0_Literal(ptab, protocol) == findPH(ptab, protocol)

\* "Find a protocol handler for this packet"
lookupPH_p0(ptab, protocol) ==
    IF protocol < 1536
    THEN findPH(ptab, phProtocolPhaseII)
    ELSE findPH(ptab, protocol)

\* The payload length handed to callPH (an unsigned short parameter)
payloadLen_p0(pktLen) == U16(pktLen - sizeofEthernetHeader)

\* accept: ... drop: the lookup, the handler call and the statistics
dispatch_p0(inf, ptab, protocol, pktLen) ==
    LET protocolSlot == lookupPH_p0(ptab, protocol)
    IN  IF protocolSlot = nil
        THEN [info |-> Bump(inf, "rxUnknownProto"), calls |-> <<>>]
        ELSE IF ptab[protocolSlot].handler = nil
        THEN [info |-> Bump(inf, "rxUnknownProto"), calls |-> <<>>]
        ELSE [info |-> Bump(inf, "rxFrameCount"),
              calls |-> <<[handler |-> ptab[protocolSlot].handler,
                           payloadLen |-> payloadLen_p0(pktLen)]>>]

\* The whole of handlePacket up to the drop label: the new statistics, the
\* handler calls made, and the nextPacket pointer given to update_rxptr
handlePacket_p0(inf, ptab, mtab, base, f, packetsPending, bytesPending) ==
    LET i0 == recordFifoStats(inf, packetsPending, bytesPending)
        nextPacket == enc624j600_addr_to_ptr(base, SWAPBYTES(f.nextPkt_le))
        pktLen == pktLen_p0(f.rsv)
        chk == lengthChecks_p0(f.rsv, pktLen)
        flt == filterCheck_p0(f.rsv, mtab, f.dest)
        i1 == IF flt[2] = "" THEN i0 ELSE Bump(i0, flt[2])
        res == IF chk # "pass" THEN [info |-> Bump(i0, chk), calls |-> <<>>]
               ELSE IF ~flt[1] THEN [info |-> i1, calls |-> <<>>]
               ELSE dispatch_p0(i1, ptab, f.protocol, pktLen)
    IN  [info |-> res.info, calls |-> res.calls, nextPacket |-> nextPacket]

(***************************************************************************)
(* handlePacket, src/software/driver/isr.c                                 *)
(***************************************************************************)
\* pktLen = SWAPBYTES(rha.rsv.pkt_len_le): the FCS is still counted
pktLen_isr(rsv) == SWAPBYTES(rsv.pkt_len_le)

lengthChecks_isr(rsv, pktLen) ==
    IF RSV_BIT(rsv, RSV_BIT_CRC_ERR) THEN "fcsErrors"
    ELSE IF pktLen < 64 THEN "rxRunt"
    ELSE IF pktLen > 1518 THEN "rxTooLong"
    ELSE "pass"

filterCheck_isr(rsv, mtab, dest) ==
    IF RSV_BIT(rsv, RSV_BIT_UNICAST) THEN <<TRUE, "">>
    ELSE IF RSV_BIT(rsv, RSV_BIT_BROADCAST)
         THEN <<TRUE, "broadcastRxFrameCount">>
    ELSE IF RSV_BIT(rsv, RSV_BIT_MULTICAST) /\ RSV_BIT(rsv, RSV_BIT_HASH_MATCH)
         THEN IF findMulticastEntry(mtab, dest)
              THEN <<TRUE, "multicastRxFrameCount">>
              ELSE <<FALSE, "rxUnwanted">>
    ELSE <<FALSE, "rxUnwanted">>

lookupPH_isr(ptab, protocol) ==
    IF protocol < 1536
    THEN findPH(ptab, phProtocolPhaseII)
    ELSE findPH(ptab, protocol)

\* Mutant: only the header is subtracted, the checksum is handed on
payloadLen_isr_KeepsFcs(pktLen) == U16(pktLen - 14)

\* callPH(..., pktLen-18): header (6+6+2) and trailing checksum (4)
payloadLen_isr(pktLen) == U16(pktLen - 18)

\* No statistic is kept for a missing or nil handler in this variant
dispatch_isr(inf, ptab, protocol, pktLen) ==
    LET protocolSlot == lookupPH_isr(ptab, protocol)
    IN  IF protocolSlot = nil
        THEN [info |-> inf, calls |-> <<>>]
        ELSE IF ptab[protocolSlot].handler = nil
        THEN [info |-> inf, calls |-> <<>>]
        ELSE [info |-> Bump(inf, "rxFrameCount"),
              calls |-> <<[handler |-> ptab[protocolSlot].handler,
                           payloadLen |-> payloadLen_isr(pktLen)]>>]

handlePacket_isr(inf, ptab, mtab, base, f, packetsPending, bytesPending) ==
    LET i0 == recordFifoStats(inf, packetsPending, bytesPending)
        pktLen == pktLen_isr(f.rsv)
        chk == lengthChecks_isr(f.rsv, pktLen)
        flt == filterCheck_isr(f.rsv, mtab, f.dest)
        i1 == IF flt[2] = "" THEN i0 ELSE Bump(i0, flt[2])
        res == IF chk # "pass" THEN [info |-> Bump(i0, chk), calls |-> <<>>]
               ELSE IF ~flt[1] THEN [info |-> i1, calls |-> <<>>]
               ELSE dispatch_isr(i1, ptab, f.protocol, pktLen)
        nextPacket == enc624j600_addr_to_ptr(base, SWAPBYTES(f.nextPkt_le))
    IN  [info |-> res.info, calls |-> res.calls, nextPacket |-> nextPacket]

(***************************************************************************)
(* State                                                                   *)
(***************************************************************************)
VARIABLES
    variant,            \* which interrupt code is built in
    vmEnabled,          \* theGlobals->vmEnabled / usingVM
    eir,                \* controller: latched interrupt causes (not IRQ_PKT)
    irqEnabled,         \* controller: global interrupt enable (IRQ_ENABLE)
    pktCnt,             \* controller: pending-packet counter
    ring,               \* controller: descriptors queued in the receive ring
    rxRdPt,             \* controller: receive read pointer / tail offset
    txRts,              \* controller: a transmission is in progress
    txLen,              \* controller: programmed transmit length
    txBuf,              \* controller: what doEWrite copied to the tx buffer
    etxstat,            \* controller: transmit status register
    phyLinkUp,          \* controller: PHY link status
    link_state,         \* chip.link_state
    info,               \* theGlobals->info
    protocolHandlers,   \* theGlobals->protocolHandlers
    multicasts,         \* theGlobals->multicasts
    pc,                 \* where the interrupt code is
    irq_status,         \* userISR's local irq_status
    inlineCall,         \* userISR was called by driverISR, not deferred
    deferred,           \* DeferUserFn holds a userISR call
    ioOutstanding,      \* Device Manager: a write awaits IODone
    acked,              \* causes cleared so far by this run of userISR
    reraised,           \* of those, the ones the controller has raised anew
    lastRx,             \* observation of the latest handlePacket
    ev,                 \* observation of the latest driver entry/return
    refusedCauses,      \* causes seen by a dispatch whose deferral was refused
    count,              \* how often each bounded event has happened
    hashFilter,         \* controller: bits set in the multicast hash table
    dCtlStorage,        \* dce->dCtlStorage: nil, or the driver's globals
    reg,                \* registrations in force, as the callers know them
    life                \* where driverOpen / driverClose is, and whether the
                        \* interrupt handler is installed

vars ==
    <<variant, vmEnabled, eir, irqEnabled, pktCnt, ring, rxRdPt, txRts, txLen,
      txBuf, etxstat, phyLinkUp, link_state, info, protocolHandlers,
      multicasts, pc, irq_status, inlineCall, deferred, ioOutstanding, acked,
      reraised,
      lastRx, ev, refusedCauses, count, hashFilter, dCtlStorage, reg, life>>

tableVars ==
    <<variant, vmEnabled, protocolHandlers, multicasts, hashFilter,
      dCtlStorage, reg, life>>
rxVars == <<pktCnt, ring, rxRdPt, lastRx>>
txVars == <<txRts, txLen, txBuf, etxstat>>
linkVars == <<phyLinkUp, link_state>>
isrVars == <<pc, irq_status, inlineCall, deferred, acked, reraised>>

IRQ_LINK == "LINK"
IRQ_RX_ABORT == "RX_ABORT"
IRQ_PCNT_FULL == "PCNT_FULL"
IRQ_TX == "TX"
IRQ_TX_ABORT == "TX_ABORT"
IRQ_PKT == "PKT"

LINK_UP == "LINK_UP"
LINK_DOWN == "LINK_DOWN"

\* enc624j600_read_irqstate: the latched causes, and IRQ_PKT while the
\* pending-packet counter is nonzero
enc624j600_read_irqstate(flags, cnt) ==
    flags \cup (IF cnt > 0 THEN {IRQ_PKT} ELSE {})

NoRx == [valid |-> FALSE]

\* The driver before driverOpen and after driverClose, and the driver open:
\* "at" is the statement driverOpen or driverClose has reached, "sInt"
\* whether driverISR is installed as the slot interrupt handler,
\* and "rxOn" whether the controller has been started and receives
Closed == [at |-> "closed", sInt |-> FALSE, rxOn |-> FALSE]
Opened == [at |-> "open", sInt |-> TRUE, rxOn |-> TRUE]
NoEv == [kind |-> "open"]
ZeroCount ==
    [arrived |-> 0, writes |-> 0, started |-> 0, iodone |-> 0, link |-> 0,
     rxabort |-> 0, runPending |-> 0, runArrived |-> 0, runHandled |-> 0,
     controls |-> 0, allocs |-> 0, resets |-> 0, installs |-> 0,
     bottomHalves |-> 0]

\* userISR is entered: the packets pending and the arrivals so far are noted
runEntered(cnt, pending) ==
    [cnt EXCEPT !.runPending = pending, !.runArrived = cnt.arrived,
                !.runHandled = 0]

\* userISR returns: the notes of the run are dropped
runLeft(cnt) ==
    [cnt EXCEPT !.runPending = 0, !.runArrived = 0, !.runHandled = 0,
                !.bottomHalves = IF @ > 0 THEN @ - 1 ELSE 0]

\* A call of userISR is queued or made: one more bottom half is pending or
\* running (counted as one, or as two and more)
userISRCalled(cnt, called) ==
    [cnt EXCEPT !.bottomHalves = IF called /\ @ < 2 THEN @ + 1 ELSE @]

\* The registry after the LAP manager and an IP stack have attached
IsrTable == PHTableOf(<< <<phProtocolPhaseII, 4096>>, <<2048, 8192>> >>)

\* Registries the receive-path specification starts from
RxTables ==
    {InitPHTable,
     PHTableOf(<< <<phProtocolPhaseII, 4096>> >>),
     PHTableOf(<< <<512, 8192>> >>),
     PHTableOf(<< <<phProtocolPhaseII, 4096>>, <<512, 8192>>, <<2048, nil>> >>),
     PHTableOf(<< <<2048, 8192>>, <<phProtocolPhaseII, nil>> >>)}

\* The driver as driverOpen leaves it, with handlers attached and one
\* multicast address added
InitCommon ==
    /\ variant \in Variants
    /\ eir = {}
    /\ rxRdPt = ENC_RX_BUF_START
    /\ txRts = FALSE
    /\ txLen = 0
    /\ txBuf = [copied |-> 0, stamped |-> FALSE]
    /\ etxstat = [bits |-> {}, colcnt |-> 0]
    /\ info = ZeroInfo
    /\ multicasts = MulticastTableOf(<<McastA>>)
    /\ hashFilter = hashOf(multicasts)
    /\ dCtlStorage = theGlobals
    /\ life = Opened
    /\ irq_status = {}
    /\ inlineCall = FALSE
    /\ deferred = FALSE
    /\ ioOutstanding = FALSE
    /\ acked = {}
    /\ reraised = {}
    /\ lastRx = NoRx
    /\ ev = NoEv
    /\ refusedCauses = {}

Init ==
    /\ InitCommon
    /\ vmEnabled \in BOOLEAN
    /\ phyLinkUp \in BOOLEAN
    /\ link_state = IF phyLinkUp THEN LINK_UP ELSE LINK_DOWN
    /\ protocolHandlers = IsrTable
    /\ reg = RegOf(protocolHandlers, multicasts)
    /\ irqEnabled = TRUE
    /\ pc = "idle"
    /\ ring = <<>>
    /\ pktCnt = 0
    /\ count = ZeroCount

(***************************************************************************)
(* The controller (environment)                                            *)
(***************************************************************************)
\* A frame passes the hardware filters and is queued in the receive ring
\* Frames received, link changes and receive aborts so far
HwEvents(cnt) == cnt.arrived + cnt.link + cnt.rxabort

HwFrameArrives(frames) ==
    /\ HwEvents(count) < MaxHwEvents
    /\ \E f \in frames : ring' = Append(ring, f)
    /\ pktCnt' = pktCnt + 1
    /\ count' = [count EXCEPT !.arrived = @ + 1]
    /\ UNCHANGED <<eir, irqEnabled, rxRdPt, lastRx, info, ioOutstanding, ev,
                   refusedCauses>>
    /\ UNCHANGED <<tableVars, txVars, linkVars, isrVars>>

(***************************************************************************)
(* handlePacket as one step of the bottom half's packet loop               *)
(***************************************************************************)
\* enc624j600_update_rxptr: program the read pointer from the pointer
enc624j600_update_rxptr(base, ptr) == enc624j600_ptr_to_addr(base, ptr)

\* enc624j600_decrement_rx_pending_count
enc624j600_decrement_rx_pending_count(cnt) == IF cnt > 0 THEN cnt - 1 ELSE 0

\* Mutant: the pending count is left alone
dropTail_NoDecrement(base, nextPacket, cnt) ==
    [rxRdPt |-> enc624j600_update_rxptr(base, nextPacket), pktCnt |-> cnt]

\* Mutant: the translated pointer is moved past the 8 bytes of next pointer
\* and status vector before it is programmed
dropTail_PastHeader(base, nextPacket, cnt) ==
    [rxRdPt |-> enc624j600_update_rxptr(base, nextPacket + 8),
     pktCnt |-> enc624j600_decrement_rx_pending_count(cnt)]

\* The drop label: advance the read pointer, decrement the pending count
dropTail(base, nextPacket, cnt) ==
    [rxRdPt |-> enc624j600_update_rxptr(base, nextPacket),
     pktCnt |-> enc624j600_decrement_rx_pending_count(cnt)]

\* With nothing pending, the read pointer is at memory that holds no new
\* descriptor: handlePacket reads whatever an earlier frame left there
handlePacket ==
  \E f \in (IF ring = <<>> THEN RxMoreFrames ELSE {Head(ring)}) :
    LET bytesPending == enc624j600_read_rx_fifo_level(ring)
        r == IF variant = "part_000"
             THEN handlePacket_p0(info, protocolHandlers, multicasts,
                                  ENC624J600_BASE, f, pktCnt, bytesPending)
             ELSE handlePacket_isr(info, protocolHandlers, multicasts,
                                   ENC624J600_BASE, f, pktCnt, bytesPending)
        t == dropTail(ENC624J600_BASE, r.nextPacket, pktCnt)
    IN  /\ info' = r.info
        /\ rxRdPt' = t.rxRdPt
        /\ pktCnt' = t.pktCnt
        /\ ring' = IF ring = <<>> THEN ring ELSE Tail(ring)
        /\ lastRx' = [valid |-> TRUE, frame |-> f, calls |-> r.calls,
                      infoBefore |-> info, infoAfter |-> r.info,
                      pktCntBefore |-> pktCnt, pktCntAfter |-> t.pktCnt,
                      rxRdPtBefore |-> rxRdPt, rxRdPtAfter |-> t.rxRdPt,
                      bytesPending |-> bytesPending]

\* Mutant: a do-while loop, handlePacket is invoked before the first test
packetPending_TestedLate(flags, cnt, handled) ==
    handled = 0 \/ IRQ_PKT \in enc624j600_read_irqstate(flags, cnt)

\* Mutant: the caller invokes handlePacket at most once
packetPending_Once(flags, cnt, handled) ==
    IRQ_PKT \in enc624j600_read_irqstate(flags, cnt) /\ handled = 0

\* while (enc624j600_read_irqstate(&theGlobals->chip) & IRQ_PKT)
packetPending(flags, cnt, handled) ==
    IRQ_PKT \in enc624j600_read_irqstate(flags, cnt)

UserISR_Packet ==
    /\ pc = "u_pkt"
    /\ packetPending(eir, pktCnt, count.runHandled)
    /\ handlePacket
    /\ count' = [count EXCEPT !.runHandled = @ + 1]
    /\ UNCHANGED <<eir, irqEnabled, ioOutstanding, ev, refusedCauses>>
    /\ UNCHANGED <<tableVars, txVars, linkVars, isrVars>>

(***************************************************************************)
(* The controller (environment), continued                                 *)
(***************************************************************************)
ETXSTAT_DEFER == "DEFER"
ETXSTAT_EXDEFER == "EXDEFER"
ETXSTAT_MAXCOL == "MAXCOL"
ETXSTAT_LATECOL == "LATECOL"

\* How a transmission can end: the causes raised and the status left in
\* ETXSTAT.  The controller may raise the abort cause alone or beside the
\* transmit-done cause.
TxOutcomes ==
    {[causes |-> {IRQ_TX}, stat |-> [bits |-> {}, colcnt |-> 0]],
     [causes |-> {IRQ_TX_ABORT},
      stat |-> [bits |-> {ETXSTAT_MAXCOL}, colcnt |-> 15]],
     [causes |-> {IRQ_TX, IRQ_TX_ABORT},
      stat |-> [bits |-> {ETXSTAT_LATECOL}, colcnt |-> 1]]}

HwTxEnd ==
    /\ txRts
    /\ \E o \in TxOutcomes :
          /\ eir' = eir \cup o.causes
          /\ etxstat' = o.stat
          /\ reraised' = reraised \cup (o.causes \cap acked)
    /\ txRts' = FALSE
    /\ UNCHANGED <<irqEnabled, txLen, txBuf, info, ioOutstanding, ev,
                   refusedCauses, count>>
    /\ UNCHANGED <<pc, irq_status, inlineCall, deferred, acked>>
    /\ UNCHANGED <<tableVars, rxVars, linkVars>>

HwLinkChange ==
    /\ HwEvents(count) < MaxHwEvents
    /\ phyLinkUp' = ~phyLinkUp
    /\ eir' = eir \cup {IRQ_LINK}
    /\ count' = [count EXCEPT !.link = @ + 1]
    /\ UNCHANGED <<irqEnabled, link_state, info, ioOutstanding, ev,
                   refusedCauses>>
    /\ UNCHANGED <<tableVars, rxVars, txVars, isrVars>>

\* A frame is lost to a full FIFO or a saturated packet counter
HwRxAbort ==
    /\ HwEvents(count) < MaxHwEvents
    /\ \E c \in {IRQ_RX_ABORT, IRQ_PCNT_FULL} : eir' = eir \cup {c}
    /\ count' = [count EXCEPT !.rxabort = @ + 1]
    /\ UNCHANGED <<irqEnabled, info, ioOutstanding, ev, refusedCauses>>
    /\ UNCHANGED <<tableVars, rxVars, txVars, linkVars, isrVars>>

(***************************************************************************)
(* doEWrite, src/unnamed/part_001                                          *)
(***************************************************************************)
\* A write data structure: entry lengths as they lie in memory, the list's
\* zero-length sentinel included
WdsLists == {<<14, 50, 0>>, <<1516, 0>>}

\* do { totalLength += wds->entryLength; wds++; } while (wds->entryLength);
\* entryLength is a short (it may be negative), totalLength an unsigned long
\* that the sums of the model never wrap
RECURSIVE wdsScan(_, _, _)
wdsScan(wds, i, total) ==
    LET t == total + wds[i]
    IN  IF i + 1 <= Len(wds) /\ wds[i + 1] # 0
        THEN wdsScan(wds, i + 1, t)
        ELSE t

\* do { memcpy(dest, source, entryLen); dest += entryLen; wds++; ... }
\* while (entryLen > 0): the bytes copied into the transmit buffer
RECURSIVE wdsCopy(_, _, _)
wdsCopy(wds, i, copied) ==
    LET c == copied + wds[i]
    IN  IF i + 1 <= Len(wds) /\ wds[i + 1] > 0
        THEN wdsCopy(wds, i + 1, c)
        ELSE c

\* Mutant: the frame check sequence is left out of the length check
lengthRejected_NoFcs(totalLength) == totalLength > 1518

\* if (totalLength + 4 > 1518) return eLenErr;
lengthRejected(totalLength) == totalLength + 4 > 1518

\* The result of doEWrite and what it leaves in the controller
doEWrite(wds, buf, len, rts, ls) ==
    LET totalLength == wdsScan(wds, 1, 0)
        copied == [copied |-> wdsCopy(wds, 1, 0), stamped |-> TRUE]
    IN  IF lengthRejected(totalLength)
        THEN [ret |-> eLenErr, txBuf |-> buf, txLen |-> len, txRts |-> rts]
        ELSE IF ls = LINK_DOWN
        THEN [ret |-> 0, txBuf |-> copied, txLen |-> len, txRts |-> rts]
        ELSE [ret |-> 1, txBuf |-> copied, txLen |-> totalLength,
              txRts |-> TRUE]

\* The Device Manager issues an ENetWrite: only when no write is pending
IssueWrite(wds, cnt) ==
    LET r == doEWrite(wds, txBuf, txLen, txRts, link_state)
    IN  /\ cnt.writes < MaxWrites
        /\ txBuf' = r.txBuf
        /\ txLen' = r.txLen
        /\ txRts' = r.txRts
        /\ ioOutstanding' = (r.ret > 0)
        /\ count' = [cnt EXCEPT !.writes = @ + 1,
                                !.started = @ + (IF r.ret > 0 THEN 1 ELSE 0)]

\* The call and its result, with the transmitter as the call found it
writeRecorded(wds, r) ==
    [kind |-> "write", wds |-> wds, ret |-> r.ret, link |-> link_state,
     before |-> [txBuf |-> txBuf, txLen |-> txLen, txRts |-> txRts]]

\* ENetWrite with one of the given write data structures
WriteOf(lists) ==
    /\ \E wds \in lists :
          /\ IssueWrite(wds, count)
          /\ ev' = writeRecorded(wds, doEWrite(wds, txBuf, txLen, txRts,
                                               link_state))
    /\ UNCHANGED <<eir, irqEnabled, etxstat, info, refusedCauses>>
    /\ UNCHANGED <<tableVars, rxVars, linkVars, isrVars>>

Write ==
    /\ pc = "idle"
    /\ ~ioOutstanding
    /\ WriteOf(WdsLists)

\* Segment lengths from which the write data structures are built
WdsSegments == {14, 1500, 1501, 1502, 1514, 1515}

\* Write data structures as they lie in memory: one or two segments and the
\* sentinel, or the sentinel at once and then whatever memory follows it,
\* read as signed 16-bit lengths
WdsImages ==
    {<<a, 0>> : a \in WdsSegments}
    \cup {<<a, b, 0>> : a \in WdsSegments, b \in WdsSegments}
    \cup {<<0, 0>>, <<0, 60, 0>>, <<0, 1516, 0>>, <<0, 2000, -1000, 0>>}

\* ENetWrite with any of them
WriteAny ==
    /\ pc = "idle"
    /\ ~ioOutstanding
    /\ WriteOf(WdsImages)

(***************************************************************************)
(* driverISR: the top half                                                 *)
(***************************************************************************)
\* enc624j600_duplex_sync: follow the PHY
enc624j600_duplex_sync(phy) == IF phy THEN LINK_UP ELSE LINK_DOWN

\* enc624j600_clear_irq
enc624j600_clear_irq(flags, causes) == flags \ causes

\* The link-change and receive-abort causes, handled in the top half
topHalfCauses(status, flags, inf, ls, phy) ==
    LET link == IRQ_LINK \in status
        rxab == status \cap {IRQ_RX_ABORT, IRQ_PCNT_FULL} # {}
        f1 == IF link THEN enc624j600_clear_irq(flags, {IRQ_LINK}) ELSE flags
        f2 == IF rxab
              THEN enc624j600_clear_irq(f1, {IRQ_RX_ABORT, IRQ_PCNT_FULL})
              ELSE f1
    IN  [eir |-> f2,
         link_state |-> IF link THEN enc624j600_duplex_sync(phy) ELSE ls,
         info |-> IF rxab THEN Bump(inf, "internalRxErrors") ELSE inf,
         irq_handled |-> IF link \/ rxab THEN 1 ELSE 0]

\* What the top half did before it turned to the user causes: the causes it
\* cleared, the duplex state it left and the PHY state it read
topHalfDone(flags, t, phy) ==
    [cleared |-> flags \ t.eir, link_state |-> t.link_state, phy |-> phy]

UserCauses == {IRQ_TX, IRQ_TX_ABORT, IRQ_PKT}

\* The controller asserts its interrupt and the CPU is not in the driver
InterruptTaken ==
    /\ pc = "idle"
    /\ irqEnabled
    /\ enc624j600_read_irqstate(eir, pktCnt) # {}

\* Mutant: the refusal branch returns with interrupts still masked
deferRefused_Masked == [irqEnabled |-> FALSE, queued |-> FALSE, ret |-> 0]

\* Mutant: the refusal branch leaves a bottom half queued
deferRefused_Queued == [irqEnabled |-> TRUE, queued |-> TRUE, ret |-> 0]

\* What the refusal branch leaves: interrupts re-enabled, "not handled"
deferRefused == [irqEnabled |-> TRUE, queued |-> FALSE, ret |-> 0]

\* Mutant: the acceptance branch re-enables interrupts before it returns
deferAccepted_Unmasked == [irqEnabled |-> TRUE, queued |-> TRUE, ret |-> 1]

\* Mutant: the acceptance branch returns although nothing was queued
deferAccepted_Dropped == [irqEnabled |-> FALSE, queued |-> FALSE, ret |-> 1]

\* What the acceptance branch leaves: still masked, "handled"
deferAccepted == [irqEnabled |-> FALSE, queued |-> TRUE, ret |-> 1]

DriverISR_Defer(outcome, name) ==
    LET status == enc624j600_read_irqstate(eir, pktCnt)
        t == topHalfCauses(status, eir, info, link_state, phyLinkUp)
    IN  /\ status \cap UserCauses # {}
        /\ eir' = t.eir
        /\ link_state' = t.link_state
        /\ info' = t.info
        /\ irqEnabled' = outcome.irqEnabled
        /\ deferred' = (deferred \/ outcome.queued)
        /\ ev' = [kind |-> "dispatch", status |-> status, deferral |-> name,
                  ret |-> outcome.ret, iodone |-> count.iodone,
                  refusedBefore |-> refusedCauses,
                  top |-> topHalfDone(eir, t, phyLinkUp)]
        /\ refusedCauses' =
              IF name = "refused" THEN status \cap UserCauses ELSE {}
        /\ count' = userISRCalled(count, outcome.queued)
        /\ UNCHANGED <<phyLinkUp, pc, irq_status, inlineCall, acked, reraised,
                       ioOutstanding>>
        /\ UNCHANGED <<tableVars, rxVars, txVars>>

\* DeferUserFn(userISR, theGlobals) != noErr
DriverISR_DeferRefused ==
    /\ InterruptTaken
    /\ vmEnabled
    /\ DriverISR_Defer(deferRefused, "refused")

\* DeferUserFn queued userISR
DriverISR_DeferAccepted ==
    /\ InterruptTaken
    /\ vmEnabled
    /\ DriverISR_Defer(deferAccepted, "accepted")

\* No virtual memory: userISR is called directly
DriverISR_Inline ==
    LET status == enc624j600_read_irqstate(eir, pktCnt)
        t == topHalfCauses(status, eir, info, link_state, phyLinkUp)
    IN  /\ InterruptTaken
        /\ status \cap UserCauses # {}
        /\ ~vmEnabled
        /\ eir' = t.eir
        /\ link_state' = t.link_state
        /\ info' = t.info
        /\ irqEnabled' = FALSE
        /\ pc' = "u_entry"
        /\ inlineCall' = TRUE
        /\ ev' = [kind |-> "dispatch", status |-> status,
                  deferral |-> "inline", ret |-> 1, iodone |-> count.iodone,
                  refusedBefore |-> refusedCauses,
                  top |-> topHalfDone(eir, t, phyLinkUp)]
        /\ refusedCauses' = {}
        /\ count' = userISRCalled(count, TRUE)
        /\ UNCHANGED <<phyLinkUp, irq_status, deferred, acked,
                       reraised, ioOutstanding>>
        /\ UNCHANGED <<tableVars, rxVars, txVars>>

\* Only top-half causes: handled inline, interrupts re-enabled
DriverISR_TopOnly ==
    LET status == enc624j600_read_irqstate(eir, pktCnt)
        t == topHalfCauses(status, eir, info, link_state, phyLinkUp)
    IN  /\ InterruptTaken
        /\ status \cap UserCauses = {}
        /\ eir' = t.eir
        /\ link_state' = t.link_state
        /\ info' = t.info
        /\ irqEnabled' = TRUE
        /\ ev' = [kind |-> "dispatch", status |-> status,
                  deferral |-> "none", ret |-> t.irq_handled,
                  iodone |-> count.iodone,
                  refusedBefore |-> refusedCauses,
                  top |-> topHalfDone(eir, t, phyLinkUp)]
        /\ refusedCauses' = {}
        /\ UNCHANGED <<phyLinkUp, ioOutstanding, count>>
        /\ UNCHANGED <<tableVars, rxVars, txVars, isrVars>>

\* After the inline userISR returns: part_000 falls through to the final
\* enable_irq, isr.c returns 1 at once
inlineReturn_p0(enabled) == TRUE
inlineReturn_isr(enabled) == enabled

DriverISR_InlineReturn ==
    /\ pc = "top_ret"
    /\ irqEnabled' = IF variant = "part_000"
                     THEN inlineReturn_p0(irqEnabled)
                     ELSE inlineReturn_isr(irqEnabled)
    /\ pc' = "idle"
    /\ inlineCall' = FALSE
    /\ ev' = [kind |-> "return", ret |-> 1]
    /\ UNCHANGED <<eir, info, irq_status, deferred, acked,
                   reraised, ioOutstanding,
                   refusedCauses, count>>
    /\ UNCHANGED <<tableVars, rxVars, txVars, linkVars>>

\* The deferred userISR is run at a safe time
RunDeferred ==
    /\ pc = "idle"
    /\ deferred
    /\ deferred' = FALSE
    /\ pc' = "u_entry"
    /\ inlineCall' = FALSE
    /\ ev' = [kind |-> "deferred_run"]
    /\ UNCHANGED <<eir, irqEnabled, info, irq_status, acked,
                   reraised, ioOutstanding,
                   refusedCauses, count>>
    /\ UNCHANGED <<tableVars, rxVars, txVars, linkVars>>

(***************************************************************************)
(* userISR: the bottom half                                                *)
(***************************************************************************)
\* Statistics of a completed transmission
txCompleteStats(inf, txstat) ==
    LET collisions == txstat.colcnt
        i1 == IF ETXSTAT_DEFER \in txstat.bits
              THEN Bump(inf, "deferredFrames") ELSE inf
        i2 == IF collisions >= 1
              THEN IF collisions = 1
                   THEN Bump(Bump(i1, "collisionFrames"),
                             "singleCollisionFrames")
                   ELSE Bump(Bump(i1, "collisionFrames"),
                             "multiCollisionFrames")
              ELSE i1
    IN  Bump(i2, "txFrameCount")

\* Mutant: a late collision is looked for before the collision limit
txAbortStats_LateFirst(inf, txstat) ==
    IF ETXSTAT_EXDEFER \in txstat.bits THEN Bump(inf, "excessiveDeferrals")
    ELSE IF ETXSTAT_LATECOL \in txstat.bits THEN Bump(inf, "lateCollisions")
    ELSE IF ETXSTAT_MAXCOL \in txstat.bits
         THEN Bump(inf, "excessiveCollisions")
    ELSE Bump(inf, "internalTxErrors")

\* Statistics of an aborted transmission
txAbortStats(inf, txstat) ==
    IF ETXSTAT_EXDEFER \in txstat.bits THEN Bump(inf, "excessiveDeferrals")
    ELSE IF ETXSTAT_MAXCOL \in txstat.bits
         THEN Bump(inf, "excessiveCollisions")
    ELSE IF ETXSTAT_LATECOL \in txstat.bits THEN Bump(inf, "lateCollisions")
    ELSE Bump(inf, "internalTxErrors")

\* The abort branch has classified the transmit status
abortRecorded(inf, txstat) ==
    [kind |-> "tx_abort", txstat |-> txstat, before |-> inf,
     after |-> txAbortStats(inf, txstat)]

\* IODone: the Device Manager completes the pending write and may issue the
\* next queued ENetWrite from inside the call
IODone(result, cause) ==
    LET done == [count EXCEPT !.iodone = @ + 1]
    IN  /\ \/ /\ ioOutstanding' = FALSE
              /\ count' = done
              /\ UNCHANGED <<txRts, txLen, txBuf>>
           \/ \E wds \in WdsLists : IssueWrite(wds, done)
        /\ ev' = [kind |-> "iodone", result |-> result, cause |-> cause,
                  ackedFirst |-> cause \in acked, causeSet |-> cause \in eir,
                  reraised |-> cause \in reraised,
                  wasOutstanding |-> ioOutstanding]

\* Mutant: the acknowledge is left until after IODone
ackBeforeDone_p0_Late(flags, cause) == <<flags, {}>>

\* part_000, transmit branches: statistics, then the acknowledge, which
\* precedes IODone.  <<flags left, causes acknowledged>>
ackBeforeDone_p0(flags, cause) ==
    <<enc624j600_clear_irq(flags, {cause}), {cause}>>

\* part_000: irq_status is read; if (TX) ... else if (TX_ABORT) ...
UserISR_Begin_p0 ==
    LET status == enc624j600_read_irqstate(eir, pktCnt)
        tx == ackBeforeDone_p0(eir, IRQ_TX)
        ab == ackBeforeDone_p0(eir, IRQ_TX_ABORT)
    IN  /\ pc = "u_entry"
        /\ variant = "part_000"
        /\ irq_status' = status
        /\ IF IRQ_TX \in status
           THEN /\ info' = txCompleteStats(info, etxstat)
                /\ eir' = tx[1]
                /\ acked' = tx[2]
                /\ reraised' = {}
                /\ pc' = "u_tx_iodone"
                /\ UNCHANGED ev
           ELSE IF IRQ_TX_ABORT \in status
           THEN /\ info' = txAbortStats(info, etxstat)
                /\ eir' = ab[1]
                /\ acked' = ab[2]
                /\ reraised' = {}
                /\ pc' = "u_abort_iodone"
                /\ ev' = abortRecorded(info, etxstat)
           ELSE /\ pc' = "u_pkt"
                /\ acked' = {}
                /\ reraised' = {}
                /\ UNCHANGED <<info, eir, ev>>
        /\ count' = runEntered(count, pktCnt)
        /\ UNCHANGED <<irqEnabled, inlineCall, deferred, ioOutstanding,
                       refusedCauses>>
        /\ UNCHANGED <<tableVars, rxVars, txVars, linkVars>>

\* isr.c: irq_status is read; if (TX) statistics, then IODone
UserISR_Begin_isr ==
    LET status == enc624j600_read_irqstate(eir, pktCnt)
    IN  /\ pc = "u_entry"
        /\ variant = "isr_c"
        /\ irq_status' = status
        /\ acked' = {}
        /\ reraised' = {}
        /\ IF IRQ_TX \in status
           THEN /\ info' = txCompleteStats(info, etxstat)
                /\ pc' = "u_tx_iodone"
           ELSE /\ pc' = "u_abort"
                /\ UNCHANGED info
        /\ count' = runEntered(count, pktCnt)
        /\ UNCHANGED <<eir, irqEnabled, inlineCall, deferred, ioOutstanding,
                       ev, refusedCauses>>
        /\ UNCHANGED <<tableVars, rxVars, txVars, linkVars>>

\* SafeIODone(noErr) / IODone(noErr)
UserISR_TxIODone ==
    /\ pc = "u_tx_iodone"
    /\ IODone(noErr, IRQ_TX)
    /\ pc' = IF variant = "part_000" THEN "u_pkt" ELSE "u_tx_clear"
    /\ UNCHANGED <<eir, irqEnabled, etxstat, info, irq_status, inlineCall,
                   deferred, acked, reraised, refusedCauses>>
    /\ UNCHANGED <<tableVars, rxVars, linkVars>>

\* isr.c: enc624j600_clear_irq(IRQ_TX) after IODone
UserISR_TxClear_isr ==
    /\ pc = "u_tx_clear"
    /\ eir' = enc624j600_clear_irq(eir, {IRQ_TX})
    /\ acked' = acked \cup {IRQ_TX}
    /\ reraised' = reraised \ {IRQ_TX}
    /\ pc' = "u_abort"
    /\ UNCHANGED <<irqEnabled, info, irq_status, inlineCall, deferred,
                   ioOutstanding, ev, refusedCauses, count>>
    /\ UNCHANGED <<tableVars, rxVars, txVars, linkVars>>

\* isr.c: if (irq_status & IRQ_TX_ABORT) statistics, then IODone
UserISR_Abort_isr ==
    /\ pc = "u_abort"
    /\ IF IRQ_TX_ABORT \in irq_status
       THEN /\ info' = txAbortStats(info, etxstat)
            /\ pc' = "u_abort_iodone"
            /\ ev' = abortRecorded(info, etxstat)
       ELSE /\ pc' = "u_pkt"
            /\ UNCHANGED <<info, ev>>
    /\ UNCHANGED <<eir, irqEnabled, irq_status, inlineCall, deferred, acked,
                   reraised, ioOutstanding, refusedCauses, count>>
    /\ UNCHANGED <<tableVars, rxVars, txVars, linkVars>>

\* SafeIODone(excessCollsns) / IODone(excessCollsns)
UserISR_AbortIODone ==
    /\ pc = "u_abort_iodone"
    /\ IODone(excessCollsns, IRQ_TX_ABORT)
    /\ pc' = IF variant = "part_000" THEN "u_pkt" ELSE "u_abort_clear"
    /\ UNCHANGED <<eir, irqEnabled, etxstat, info, irq_status, inlineCall,
                   deferred, acked, reraised, refusedCauses>>
    /\ UNCHANGED <<tableVars, rxVars, linkVars>>

\* isr.c: enc624j600_clear_irq(IRQ_TX_ABORT) after IODone
UserISR_AbortClear_isr ==
    /\ pc = "u_abort_clear"
    /\ eir' = enc624j600_clear_irq(eir, {IRQ_TX_ABORT})
    /\ acked' = acked \cup {IRQ_TX_ABORT}
    /\ reraised' = reraised \ {IRQ_TX_ABORT}
    /\ pc' = "u_pkt"
    /\ UNCHANGED <<irqEnabled, info, irq_status, inlineCall, deferred,
                   ioOutstanding, ev, refusedCauses, count>>
    /\ UNCHANGED <<tableVars, rxVars, txVars, linkVars>>

\* Mutant: userISR returns without enabling the interrupts
userISR_unmask_Skipped(enabled) == enabled

\* enc624j600_enable_irq(&theGlobals->chip, IRQ_ENABLE), userISR's last
\* statement
userISR_unmask(enabled) == TRUE

\* The packet loop has drained the ring: enable_irq, return
UserISR_Exit ==
    /\ pc = "u_pkt"
    /\ ~packetPending(eir, pktCnt, count.runHandled)
    /\ irqEnabled' = userISR_unmask(irqEnabled)
    /\ pc' = IF inlineCall THEN "top_ret" ELSE "idle"
    /\ ev' = [kind |-> "user_exit", pktCnt |-> pktCnt,
              pending |-> count.runPending, handled |-> count.runHandled,
              arrivedDuring |-> count.arrived - count.runArrived]
    /\ count' = runLeft(count)
    /\ UNCHANGED <<eir, info, irq_status, inlineCall, deferred, acked, reraised,
                   ioOutstanding, refusedCauses>>
    /\ UNCHANGED <<tableVars, rxVars, txVars, linkVars>>

(***************************************************************************)
(* The driver with its controller                                          *)
(***************************************************************************)
Next ==
    \/ HwFrameArrives(IsrFrames)
    \/ HwTxEnd
    \/ HwLinkChange
    \/ HwRxAbort
    \/ Write
    \/ DriverISR_DeferRefused
    \/ DriverISR_DeferAccepted
    \/ DriverISR_Inline
    \/ DriverISR_TopOnly
    \/ DriverISR_InlineReturn
    \/ RunDeferred
    \/ UserISR_Begin_p0
    \/ UserISR_Begin_isr
    \/ UserISR_TxIODone
    \/ UserISR_TxClear_isr
    \/ UserISR_Abort_isr
    \/ UserISR_AbortIODone
    \/ UserISR_AbortClear_isr
    \/ UserISR_Packet
    \/ UserISR_Exit

Spec == Init /\ [][Next]_vars

(***************************************************************************)
(* Transmit-entry specification: doEWrite over every write data structure  *)
(* and both link states                                                    *)
(***************************************************************************)
InitWrite ==
    /\ InitCommon
    /\ vmEnabled = FALSE
    /\ phyLinkUp \in BOOLEAN
    /\ link_state = enc624j600_duplex_sync(phyLinkUp)
    /\ protocolHandlers = IsrTable
    /\ reg = RegOf(protocolHandlers, multicasts)
    /\ irqEnabled = TRUE
    /\ pc = "idle"
    /\ ring = <<>>
    /\ pktCnt = 0
    /\ count = ZeroCount

NextWrite == WriteAny

WriteSpec == InitWrite /\ [][NextWrite]_vars

(***************************************************************************)
(* Bottom-half specification: one run of userISR, over every combination   *)
(* of causes, transmit status and pending packets it can be entered with   *)
(***************************************************************************)
\* Packets pending when the bottom half is entered
MaxPending == 2

\* ETXSTAT as the controller can leave it
TxStats ==
    [bits : SUBSET {ETXSTAT_DEFER, ETXSTAT_EXDEFER, ETXSTAT_MAXCOL,
                    ETXSTAT_LATECOL},
     colcnt : {0, 1, 15}]

\* Receive rings of up to n frames
RingsUpTo(n) == UNION {[1..k -> RxMoreFrames] : k \in 0..n}

InitUser ==
    /\ variant \in Variants
    /\ vmEnabled = TRUE
    /\ eir \in SUBSET {IRQ_TX, IRQ_TX_ABORT}
    /\ etxstat \in TxStats
    /\ ring \in RingsUpTo(MaxPending)
    /\ pktCnt = Len(ring)
    /\ rxRdPt = ENC_RX_BUF_START
    /\ txRts = FALSE
    /\ txLen = 0
    /\ txBuf = [copied |-> 0, stamped |-> FALSE]
    /\ ioOutstanding = (eir # {})
    /\ count = [ZeroCount EXCEPT !.bottomHalves = 1,
                                 !.writes = IF eir # {} THEN 1 ELSE 0,
                                 !.started = IF eir # {} THEN 1 ELSE 0]
    /\ phyLinkUp = TRUE
    /\ link_state = LINK_UP
    /\ info = ZeroInfo
    /\ protocolHandlers = IsrTable
    /\ multicasts = MulticastTableOf(<<McastA>>)
    /\ hashFilter = hashOf(multicasts)
    /\ dCtlStorage = theGlobals
    /\ life = Opened
    /\ reg = RegOf(protocolHandlers, multicasts)
    /\ irqEnabled = FALSE
    /\ pc = "u_entry"
    /\ irq_status = {}
    /\ inlineCall = FALSE
    /\ deferred = FALSE
    /\ acked = {}
    /\ reraised = {}
    /\ lastRx = NoRx
    /\ ev = [kind |-> "deferred_run"]
    /\ refusedCauses = {}

NextUser ==
    \/ HwFrameArrives(RxMoreFrames)
    \/ HwTxEnd
    \/ UserISR_Begin_p0
    \/ UserISR_Begin_isr
    \/ UserISR_TxIODone
    \/ UserISR_TxClear_isr
    \/ UserISR_Abort_isr
    \/ UserISR_AbortIODone
    \/ UserISR_AbortClear_isr
    \/ UserISR_Packet
    \/ UserISR_Exit

UserSpec == InitUser /\ [][NextUser]_vars

(***************************************************************************)
(* Progress specification: the interrupt path over frames already in the   *)
(* receive buffer and the transmissions the writes start, with the         *)
(* controller ending every transmission and the CPU executing the          *)
(* interrupt code to its end                                               *)
(***************************************************************************)
InitLive ==
    /\ InitCommon
    /\ vmEnabled \in BOOLEAN
    /\ phyLinkUp = TRUE
    /\ link_state = LINK_UP
    /\ protocolHandlers = IsrTable
    /\ reg = RegOf(protocolHandlers, multicasts)
    /\ irqEnabled = TRUE
    /\ pc = "idle"
    /\ ring \in RingsUpTo(MaxPending)
    /\ pktCnt = Len(ring)
    /\ count = ZeroCount

\* Every step of the interrupt code but the refusal of a deferral: the CPU
\* goes on executing, and DeferUserFn does not refuse for ever
IsrProgress ==
    \/ DriverISR_DeferAccepted
    \/ DriverISR_Inline
    \/ DriverISR_InlineReturn
    \/ RunDeferred
    \/ UserISR_Begin_p0
    \/ UserISR_Begin_isr
    \/ UserISR_TxIODone
    \/ UserISR_TxClear_isr
    \/ UserISR_Abort_isr
    \/ UserISR_AbortIODone
    \/ UserISR_AbortClear_isr
    \/ UserISR_Packet
    \/ UserISR_Exit

NextLive ==
    \/ HwTxEnd
    \/ Write
    \/ DriverISR_DeferRefused
    \/ IsrProgress

LiveSpec ==
    InitLive /\ [][NextLive]_vars /\ WF_vars(HwTxEnd) /\ WF_vars(IsrProgress)

(***************************************************************************)
(* Receive-path specification: the packet loop alone, over every frame     *)
(***************************************************************************)
InitRx ==
    /\ InitCommon
    /\ vmEnabled = FALSE
    /\ phyLinkUp = TRUE
    /\ link_state = LINK_UP
    /\ protocolHandlers \in RxTables
    /\ reg = RegOf(protocolHandlers, multicasts)
    /\ irqEnabled = FALSE
    /\ pc = "u_pkt"
    /\ \E f \in RxFrames : ring = <<f>>
    /\ pktCnt = 1
    /\ count = [ZeroCount EXCEPT !.bottomHalves = 1]

NextRx ==
    \/ HwFrameArrives(RxMoreFrames)
    \/ UserISR_Packet

RxSpec == InitRx /\ [][NextRx]_vars

(***************************************************************************)
(* Ring-pointer specification: the packet loop over descriptors holding    *)
(* every kind of next-packet value, inside and outside the receive region  *)
(***************************************************************************)
RingNextPkts == {0, 6, 1535, 1536, 3000, 24575, 24576, 65535}

RingFrames ==
    {MkFrame(b, 64, McastA, 2048, n) :
        b \in {{RSV_BIT_UNICAST}, {RSV_BIT_CRC_ERR}}, n \in RingNextPkts}

InitRing ==
    /\ InitCommon
    /\ vmEnabled = FALSE
    /\ phyLinkUp = TRUE
    /\ link_state = LINK_UP
    /\ protocolHandlers = IsrTable
    /\ reg = RegOf(protocolHandlers, multicasts)
    /\ irqEnabled = FALSE
    /\ pc = "u_pkt"
    /\ \E f \in RingFrames : ring = <<f>>
    /\ pktCnt = 1
    /\ count = [ZeroCount EXCEPT !.bottomHalves = 1]

NextRing ==
    \/ HwFrameArrives(RingFrames)
    \/ UserISR_Packet

RingSpec == InitRing /\ [][NextRing]_vars

(***************************************************************************)
(* Driver entry points: Open and the Control dispatch                      *)
(***************************************************************************)
controlErr == -17
memFullErr == -108
lapProtErr == -94
eMultiErr == -91

ENetDelMulti == "ENetDelMulti"
ENetAddMulti == "ENetAddMulti"
ENetAttachPH == "ENetAttachPH"
ENetDetachPH == "ENetDetachPH"
ENetRead == "ENetRead"
ENetRdCancel == "ENetRdCancel"
ENetGetInfo == "ENetGetInfo"
ENetSetGeneral == "ENetSetGeneral"
csUnhandled == "csUnhandled"

\* Open and control calls in one behaviour
MaxControls == 4

\* The identifiers and addresses the calls are made with
CtlIds == {phProtocolPhaseII, 2048, 2054}
CtlAddrs == {McastA, McastB, McastC}

\* The first free slot of the registry, or nil
firstFreePH(table) == findPH(table, phProtocolFree)

\* Mutant: a duplicate attach replaces the handler of the existing entry
doEAttachPH_Overwrite(table, id, handler) ==
    IF findPH(table, id) # nil
    THEN [ret |-> noErr,
          table |-> [table EXCEPT ![findPH(table, id)].handler = handler]]
    ELSE IF firstFreePH(table) = nil
    THEN [ret |-> lapProtErr, table |-> table]
    ELSE [ret |-> noErr,
          table |-> [table EXCEPT ![firstFreePH(table)] =
                        [ethertype |-> id, handler |-> handler]]]

\* Mutant: attach takes a free slot without looking for the identifier
doEAttachPH_NoDupCheck(table, id, handler) ==
    IF firstFreePH(table) = nil
    THEN [ret |-> lapProtErr, table |-> table]
    ELSE [ret |-> noErr,
          table |-> [table EXCEPT ![firstFreePH(table)] =
                        [ethertype |-> id, handler |-> handler]]]

\* Mutant: attach on a full registry reuses the last slot
doEAttachPH_FullEvicts(table, id, handler) ==
    IF findPH(table, id) # nil
    THEN [ret |-> lapProtErr, table |-> table]
    ELSE [ret |-> noErr,
          table |-> [table EXCEPT
                        ![IF firstFreePH(table) = nil THEN numberOfPhs
                          ELSE firstFreePH(table)] =
                            [ethertype |-> id, handler |-> handler]]]

\* attach(id, handler): fails if id is registered, fails if no slot is free
doEAttachPH(table, id, handler) ==
    IF findPH(table, id) # nil
    THEN [ret |-> lapProtErr, table |-> table]
    ELSE IF firstFreePH(table) = nil
    THEN [ret |-> lapProtErr, table |-> table]
    ELSE [ret |-> noErr,
          table |-> [table EXCEPT ![firstFreePH(table)] =
                        [ethertype |-> id, handler |-> handler]]]

\* detach(id): the slot is marked free; not found is a success
doEDetachPH(table, id) ==
    IF findPH(table, id) = nil
    THEN [ret |-> noErr, table |-> table]
    ELSE [ret |-> noErr,
          table |-> [table EXCEPT ![findPH(table, id)] = FreeSlot]]

\* The occupied slot that holds the address, or nil
multicastSlot(table, addr) ==
    IF findMulticastEntry(table, addr)
    THEN CHOOSE i \in 1..numberofMulticasts :
            table[i].refCount > 0 /\ table[i].address = addr
    ELSE nil

\* The first slot that is not occupied, or nil
freeMulticastSlot(table) ==
    IF \E i \in 1..numberofMulticasts : table[i].refCount = 0
    THEN CHOOSE i \in 1..numberofMulticasts :
            /\ table[i].refCount = 0
            /\ \A j \in 1..(i - 1) : table[j].refCount # 0
    ELSE nil

\* refCount is an unsigned char
U8(x) == x % 256

\* add(address): one more reference if present, else a new slot and a new
\* hash filter, else (table full) a failure
doEAddMulti(table, hash, addr) ==
    IF multicastSlot(table, addr) # nil
    THEN [ret |-> noErr,
          table |-> [table EXCEPT ![multicastSlot(table, addr)].refCount =
                        U8(@ + 1)],
          hash |-> hash]
    ELSE IF freeMulticastSlot(table) = nil
    THEN [ret |-> eMultiErr, table |-> table, hash |-> hash]
    ELSE LET t == [table EXCEPT ![freeMulticastSlot(table)] =
                      [address |-> addr, refCount |-> 1]]
         IN  [ret |-> noErr, table |-> t, hash |-> hashOf(t)]

\* remove(address): one reference fewer; at zero the slot goes and the hash
\* filter is computed anew
doEDelMulti(table, hash, addr) ==
    IF multicastSlot(table, addr) = nil
    THEN [ret |-> eMultiErr, table |-> table, hash |-> hash]
    ELSE LET i == multicastSlot(table, addr)
             rc == U8(table[i].refCount - 1)
         IN  IF rc = 0
             THEN LET t == [table EXCEPT ![i] = EmptyMulticast]
                  IN  [ret |-> noErr, table |-> t, hash |-> hashOf(t)]
             ELSE [ret |-> noErr,
                   table |-> [table EXCEPT ![i].refCount = rc],
                   hash |-> hash]

\* The driver state and the hardware a control or open call could touch
driverState ==
    [protocolHandlers |-> protocolHandlers, multicasts |-> multicasts,
     hashFilter |-> hashFilter, info |-> info, dCtlStorage |-> dCtlStorage,
     eir |-> eir, irqEnabled |-> irqEnabled, pktCnt |-> pktCnt,
     ring |-> ring, rxRdPt |-> rxRdPt, txRts |-> txRts, txLen |-> txLen,
     txBuf |-> txBuf, link_state |-> link_state,
     allocs |-> count.allocs, resets |-> count.resets,
     installs |-> count.installs]

\* A control call is made by the Device Manager on the open driver, outside
\* the interrupt code
ControlCalled ==
    /\ pc = "idle"
    /\ dCtlStorage # nil
    /\ count.controls < MaxControls

\* What the call leaves for the observer
controlRecorded(csCode, arg, ret) ==
    /\ count' = [count EXCEPT !.controls = @ + 1]
    /\ ev' = [kind |-> "control", csCode |-> csCode, arg |-> arg,
              ret |-> ret, before |-> driverState, after |-> driverState',
              regBefore |-> reg]

controlUntouched ==
    /\ UNCHANGED <<variant, vmEnabled, dCtlStorage, eir, irqEnabled, info,
                   ioOutstanding, refusedCauses, life>>
    /\ UNCHANGED <<rxVars, txVars, linkVars, isrVars>>

\* case ENetAttachPH
Control_AttachPH ==
    \E id \in CtlIds, h \in HandlerProcs :
        LET r == doEAttachPH(protocolHandlers, id, h)
        IN  /\ ControlCalled
            /\ protocolHandlers' = r.table
            /\ reg' = IF r.ret = noErr
                      THEN [reg EXCEPT !.ph[id] = h] ELSE reg
            /\ UNCHANGED <<multicasts, hashFilter>>
            /\ controlUntouched
            /\ controlRecorded(ENetAttachPH, <<id, h>>, r.ret)

\* case ENetDetachPH
Control_DetachPH ==
    \E id \in CtlIds :
        LET r == doEDetachPH(protocolHandlers, id)
        IN  /\ ControlCalled
            /\ protocolHandlers' = r.table
            /\ reg' = [reg EXCEPT !.ph[id] = NoMatch]
            /\ UNCHANGED <<multicasts, hashFilter>>
            /\ controlUntouched
            /\ controlRecorded(ENetDetachPH, <<id>>, r.ret)

\* case ENetAddMulti
Control_AddMulti ==
    \E a \in CtlAddrs :
        LET r == doEAddMulti(multicasts, hashFilter, a)
        IN  /\ ControlCalled
            /\ multicasts' = r.table
            /\ hashFilter' = r.hash
            /\ reg' = IF r.ret = noErr
                      THEN [reg EXCEPT !.mc[a] = @ + 1] ELSE reg
            /\ UNCHANGED protocolHandlers
            /\ controlUntouched
            /\ controlRecorded(ENetAddMulti, <<a>>, r.ret)

\* case ENetDelMulti
Control_DelMulti ==
    \E a \in CtlAddrs :
        LET r == doEDelMulti(multicasts, hashFilter, a)
        IN  /\ ControlCalled
            /\ multicasts' = r.table
            /\ hashFilter' = r.hash
            /\ reg' = IF r.ret = noErr
                      THEN [reg EXCEPT !.mc[a] = @ - 1] ELSE reg
            /\ UNCHANGED protocolHandlers
            /\ controlUntouched
            /\ controlRecorded(ENetDelMulti, <<a>>, r.ret)

\* Mutant: ENetRead is taken for an attach of the sentinel with no handler
controlRefused_Registers(table) ==
    [ret |-> controlErr,
     table |-> doEAttachPH(table, phProtocolPhaseII, nil).table]

\* case ENetRead, case ENetRdCancel, default: return controlErr
controlRefused(table) == [ret |-> controlErr, table |-> table]

Control_Unsupported ==
    \E c \in {ENetRead, ENetRdCancel, csUnhandled} :
        LET r == controlRefused(protocolHandlers)
        IN  /\ ControlCalled
            /\ protocolHandlers' = r.table
            /\ UNCHANGED <<multicasts, hashFilter, reg>>
            /\ controlUntouched
            /\ controlRecorded(c, <<>>, r.ret)

\* case ENetGetInfo (the block is copied out), case ENetSetGeneral (no-op)
Control_NoOp ==
    \E c \in {ENetGetInfo, ENetSetGeneral} :
        /\ ControlCalled
        /\ UNCHANGED <<protocolHandlers, multicasts, hashFilter, reg>>
        /\ controlUntouched
        /\ controlRecorded(c, <<>>, noErr)

\* Mutant: driverOpen sets the driver up whether or not it is open
driverOpen_Always(st, phy, allocOk) ==
    [ret |-> noErr,
     st |-> [protocolHandlers |-> InitPHTable,
             multicasts |-> MulticastTableOf(<<>>),
             hashFilter |-> {}, info |-> ZeroInfo,
             dCtlStorage |-> theGlobals, eir |-> {}, irqEnabled |-> TRUE,
             pktCnt |-> 0, ring |-> <<>>, rxRdPt |-> ENC_RX_BUF_START,
             txRts |-> FALSE, txLen |-> 0,
             txBuf |-> [copied |-> 0, stamped |-> FALSE],
             link_state |-> enc624j600_duplex_sync(phy),
             allocs |-> st.allocs + 1, resets |-> st.resets + 1,
             installs |-> st.installs + 1]]

\* driverOpen: on the first call the globals are allocated and cleared, the
\* registry initialized, the chip reset and initialized, the interrupt
\* handler installed and interrupts enabled; on an open driver nothing
driverOpen(st, phy, allocOk) ==
    IF st.dCtlStorage = nil
    THEN IF ~allocOk
         THEN [ret |-> memFullErr, st |-> st]
         ELSE [ret |-> noErr,
               st |-> [protocolHandlers |-> InitPHTable,
                       multicasts |-> MulticastTableOf(<<>>),
                       hashFilter |-> {}, info |-> ZeroInfo,
                       dCtlStorage |-> theGlobals, eir |-> {},
                       irqEnabled |-> TRUE,
                       pktCnt |-> 0, ring |-> <<>>,
                       rxRdPt |-> ENC_RX_BUF_START,
                       txRts |-> FALSE, txLen |-> 0,
                       txBuf |-> [copied |-> 0, stamped |-> FALSE],
                       link_state |-> enc624j600_duplex_sync(phy),
                       allocs |-> st.allocs + 1, resets |-> st.resets + 1,
                       installs |-> st.installs + 1]]
    ELSE [ret |-> noErr, st |-> st]

\* The Open entry point, called by the Device Manager on every open
DriverOpen ==
    \E allocOk \in BOOLEAN :
        LET r == driverOpen(driverState, phyLinkUp, allocOk)
        IN  /\ pc = "idle"
            /\ count.controls < MaxControls
            /\ protocolHandlers' = r.st.protocolHandlers
            /\ multicasts' = r.st.multicasts
            /\ hashFilter' = r.st.hashFilter
            /\ info' = r.st.info
            /\ dCtlStorage' = r.st.dCtlStorage
            /\ life' = IF r.st.dCtlStorage = nil THEN Closed ELSE Opened
            /\ eir' = r.st.eir
            /\ irqEnabled' = r.st.irqEnabled
            /\ pktCnt' = r.st.pktCnt
            /\ ring' = r.st.ring
            /\ rxRdPt' = r.st.rxRdPt
            /\ txRts' = r.st.txRts
            /\ txLen' = r.st.txLen
            /\ txBuf' = r.st.txBuf
            /\ link_state' = r.st.link_state
            /\ count' = [count EXCEPT !.controls = @ + 1,
                                      !.allocs = r.st.allocs,
                                      !.resets = r.st.resets,
                                      !.installs = r.st.installs]
            /\ reg' = IF dCtlStorage = nil /\ r.ret = noErr
                      THEN RegOf(protocolHandlers', multicasts') ELSE reg
            /\ ev' = [kind |-> "driverOpen", ret |-> r.ret,
                      before |-> driverState, after |-> r.st,
                      regBefore |-> reg]
            /\ UNCHANGED <<variant, vmEnabled, etxstat, phyLinkUp, lastRx,
                           ioOutstanding, refusedCauses>>
            /\ UNCHANGED isrVars

(***************************************************************************)
(* Entry-point specification: Open and Control calls on the closed driver  *)
(* and on drivers whose tables earlier calls have filled                   *)
(***************************************************************************)
\* The table after the listed <<address, refCount>> pairs
MulticastTableWith(pairs) ==
    [i \in 1..numberofMulticasts |->
        IF i <= Len(pairs)
        THEN [address |-> pairs[i][1], refCount |-> pairs[i][2]]
        ELSE EmptyMulticast]

\* A registry with its first n slots taken
PhFilled(n) ==
    PHTableOf([i \in 1..n |->
                  IF i = 1 THEN <<2048, 8192>> ELSE <<24575 + i, 4096>>])

\* The registries and multicast tables of the open drivers the
\* specification starts from: the usual two handlers, a registry one short
\* of full and a full one; no address, one address, one address added 255
\* times and a full table
TablesCtl ==
    {<<IsrTable, MulticastTableWith(<<>>)>>,
     <<PhFilled(numberOfPhs - 1), MulticastTableWith(<< <<McastA, 1>> >>)>>,
     <<IsrTable, MulticastTableWith(<< <<McastA, 255>> >>)>>,
     <<PhFilled(numberOfPhs),
       MulticastTableWith(<< <<McastA, 1>>, <<"mcastF1", 1>>,
                             <<"mcastF2", 1>>, <<"mcastF3", 1>>,
                             <<"mcastF4", 1>>, <<"mcastF5", 1>>,
                             <<"mcastF6", 1>>, <<"mcastF7", 2>> >>)>>}

InitCtl ==
    /\ variant = "part_000"
    /\ vmEnabled = FALSE
    /\ dCtlStorage \in {nil, theGlobals}
    /\ life = IF dCtlStorage = nil THEN Closed ELSE Opened
    /\ IF dCtlStorage = nil
       THEN /\ protocolHandlers = InitPHTable
            /\ multicasts = MulticastTableWith(<<>>)
            /\ irqEnabled = FALSE
            /\ info = ZeroInfo
       ELSE /\ \E t \in TablesCtl :
                  /\ protocolHandlers = t[1]
                  /\ multicasts = t[2]
            /\ irqEnabled = TRUE
            /\ info = Bump(ZeroInfo, "internalRxErrors")
    /\ hashFilter = hashOf(multicasts)
    /\ reg = RegOf(protocolHandlers, multicasts)
    /\ eir = {}
    /\ pktCnt = 0
    /\ ring = <<>>
    /\ rxRdPt = ENC_RX_BUF_START
    /\ txRts = FALSE
    /\ txLen = 0
    /\ txBuf = [copied |-> 0, stamped |-> FALSE]
    /\ etxstat = [bits |-> {}, colcnt |-> 0]
    /\ phyLinkUp = TRUE
    /\ link_state = LINK_UP
    /\ pc = "idle"
    /\ irq_status = {}
    /\ inlineCall = FALSE
    /\ deferred = FALSE
    /\ ioOutstanding = FALSE
    /\ acked = {}
    /\ reraised = {}
    /\ lastRx = NoRx
    /\ ev = NoEv
    /\ refusedCauses = {}
    /\ count = ZeroCount

NextCtl ==
    \/ DriverOpen
    \/ Control_AttachPH
    \/ Control_DetachPH
    \/ Control_AddMulti
    \/ Control_DelMulti
    \/ Control_Unsupported
    \/ Control_NoOp

CtlSpec == InitCtl /\ [][NextCtl]_vars

(***************************************************************************)
(* Properties of the receive path (checked under RxSpec)                   *)
(***************************************************************************)
\* How much the latest handlePacket added to a statistic
RxDelta(field) == lastRx.infoAfter[field] - lastRx.infoBefore[field]

\* The frame the latest handlePacket worked on, as the controller meant it
RxCrcErr == RSV_BIT_CRC_ERR \in lastRx.frame.rsv.bits
RxUnicast == RSV_BIT_UNICAST \in lastRx.frame.rsv.bits
RxStatusLen == lastRx.frame.hw.len
RxFrameLen == RxStatusLen - 4
RxLenInRange == RxFrameLen >= 60 /\ RxFrameLen <= 1514

\* The protocol identifier of a frame: the sentinel below 0x0600
RxProtocolId ==
    IF lastRx.frame.protocol < 1536
    THEN phProtocolPhaseII
    ELSE lastRx.frame.protocol

\* The non-nil handlers registered under an identifier
RegisteredHandlers(id) ==
    {protocolHandlers[i].handler : i \in
        {j \in 1..numberOfPhs :
            /\ protocolHandlers[j].ethertype = id
            /\ protocolHandlers[j].handler # nil}}

\* C1: a frame whose status vector has the CRC-error bit set, whatever its
\* length, match bits and protocol, makes handlePacket add exactly 1 to
\* fcsErrors and call no protocol handler.
C1_CrcErrorCounted ==
    (lastRx.valid /\ RxCrcErr) =>
        /\ RxDelta("fcsErrors") = 1
        /\ info.fcsErrors = lastRx.infoBefore.fcsErrors + 1
        /\ lastRx.calls = <<>>

\* C1 witness: a CRC-error frame that every other check would have handed
\* to a registered handler has been counted.
C1_Witness ==
    /\ lastRx.valid /\ RxCrcErr /\ RxUnicast /\ RxLenInRange
    /\ RegisteredHandlers(RxProtocolId) # {}
    /\ info.fcsErrors = 1

\* C2 (as claimed): in part_000, with the CRC-error bit clear, a status
\* length L with L - 4 < 60 bumps rxRunt, one with L - 4 > 1514 bumps
\* rxTooLong, and no handler is called; also for L < 4.
C2_LengthRejects ==
    (lastRx.valid /\ variant = "part_000" /\ ~RxCrcErr) =>
        /\ RxFrameLen < 60 =>
              RxDelta("rxRunt") = 1 /\ lastRx.calls = <<>>
        /\ RxFrameLen > 1514 =>
              RxDelta("rxTooLong") = 1 /\ lastRx.calls = <<>>

\* C3: CRC clear, length in range, unicast-match set and a non-nil handler
\* registered for the protocol identifier: that handler is called exactly
\* once, with payload length = status length - 4 - 14.
C3_UnicastDelivered ==
    (/\ lastRx.valid /\ ~RxCrcErr /\ RxLenInRange /\ RxUnicast
     /\ RegisteredHandlers(RxProtocolId) # {}) =>
        /\ Len(lastRx.calls) = 1
        /\ lastRx.calls[1].handler \in RegisteredHandlers(RxProtocolId)
        /\ lastRx.calls[1].payloadLen = RxFrameLen - 14

\* C3 witness: a unicast frame of the largest legal size was delivered by
\* the isr.c variant.
C3_Witness ==
    /\ lastRx.valid /\ ~RxCrcErr /\ RxUnicast /\ RxStatusLen = 1518
    /\ variant = "isr_c"
    /\ Len(lastRx.calls) = 1
    /\ lastRx.calls[1].payloadLen = 1500

\* C4: a frame whose protocol/length field is below 0x0600 is only ever
\* handed to the handler registered under the sentinel phProtocolPhaseII:
\* a handler registered under the literal value is not called for it, and
\* without a (non-nil) sentinel handler nothing is called; a frame that is
\* accepted (CRC clear, length in range, unicast) does reach the sentinel
\* handler when there is one.
C4_LengthTypedToSentinel ==
    (lastRx.valid /\ lastRx.frame.protocol < 1536) =>
        /\ \A k \in 1..Len(lastRx.calls) :
              lastRx.calls[k].handler \in RegisteredHandlers(phProtocolPhaseII)
        /\ RegisteredHandlers(phProtocolPhaseII) = {} => lastRx.calls = <<>>
        /\ (/\ ~RxCrcErr /\ RxLenInRange /\ RxUnicast
            /\ RegisteredHandlers(phProtocolPhaseII) # {}) =>
              Len(lastRx.calls) = 1

\* C4 witness: a frame with field 0x0200 went to the sentinel handler while
\* another handler was registered under the literal 0x0200.
C4_Witness ==
    /\ lastRx.valid /\ lastRx.frame.protocol = 512
    /\ RegisteredHandlers(512) # {}
    /\ RegisteredHandlers(512) \cap RegisteredHandlers(phProtocolPhaseII) = {}
    /\ Len(lastRx.calls) = 1
    /\ lastRx.calls[1].handler \in RegisteredHandlers(phProtocolPhaseII)

\* C5: every handlePacket, on every branch, leaves the read pointer at the
\* descriptor's next-packet location and the pending count one lower.
C5_AdvanceOnce ==
    lastRx.valid =>
        /\ lastRx.rxRdPtAfter = lastRx.frame.hw.next
        /\ rxRdPt = lastRx.frame.hw.next
        /\ lastRx.pktCntAfter = lastRx.pktCntBefore - 1

\* C5 witness: a dropped frame (runt) moved the pointer off the ring start
\* with two packets pending.
C5_Witness ==
    /\ lastRx.valid /\ lastRx.calls = <<>> /\ RxDelta("rxRunt") = 1
    /\ lastRx.pktCntBefore = 2 /\ lastRx.pktCntAfter = 1
    /\ lastRx.rxRdPtBefore = 1536 /\ rxRdPt = 3000

(***************************************************************************)
(* The life of the driver: driverOpen and driverClose statement by         *)
(* statement, with the interrupt path running between the statements       *)
(***************************************************************************)
\* How often the driver is opened
MaxOpens == 2

\* The statements of driverOpen in their order: allocate (closed),
\* InitPHTable, enc624j600_reset, enc624j600_init with the hardware address
\* and nextPkt, SIntInstall, enc624j600_start, enc624j600_enable_irq
openOrder ==
    [closed |-> "o_table", o_table |-> "o_reset", o_reset |-> "o_init",
     o_init |-> "o_install", o_install |-> "o_start",
     o_start |-> "o_enable", o_enable |-> "open"]

\* The statements of driverClose in their order: enc624j600_reset,
\* SIntRemove, DisposePtr with dCtlStorage = nil
closeOrder ==
    [open |-> "c_remove", c_remove |-> "c_dispose", c_dispose |-> "closed"]

\* driverOpen and driverClose run at task level: not while interrupt code
\* runs
TaskLevel(at) == pc = "idle" /\ life.at = at

lifeUntouched ==
    UNCHANGED <<variant, vmEnabled, etxstat, phyLinkUp, lastRx, ioOutstanding,
                refusedCauses, ev, reg, isrVars>>

\* theGlobals = NewPtrSysClear(...) succeeds; dce->dCtlStorage = theGlobals
Open_Alloc ==
    /\ TaskLevel("closed")
    /\ dCtlStorage = nil
    /\ count.allocs < MaxOpens
    /\ dCtlStorage' = theGlobals
    /\ info' = ZeroInfo
    /\ protocolHandlers' = [i \in 1..numberOfPhs |->
                               [ethertype |-> 0, handler |-> nil]]
    /\ multicasts' = MulticastTableOf(<<>>)
    /\ life' = [life EXCEPT !.at = openOrder[life.at]]
    /\ count' = [count EXCEPT !.allocs = @ + 1]
    /\ lifeUntouched
    /\ UNCHANGED <<eir, irqEnabled, hashFilter, link_state, rxVars, txRts,
                   txLen, txBuf>>

\* InitPHTable(theGlobals)
Open_InitPHTable ==
    /\ TaskLevel("o_table")
    /\ protocolHandlers' = InitPHTable
    /\ life' = [life EXCEPT !.at = openOrder[life.at]]
    /\ lifeUntouched
    /\ UNCHANGED <<eir, irqEnabled, hashFilter, link_state, rxVars, txRts,
                   txLen, txBuf, dCtlStorage, info, multicasts, count>>

\* enc624j600_reset: the controller as a reset leaves it
chipReset(counter) ==
    /\ eir' = {}
    /\ irqEnabled' = FALSE
    /\ hashFilter' = {}
    /\ pktCnt' = 0
    /\ ring' = <<>>
    /\ rxRdPt' = ENC_RX_BUF_START
    /\ txRts' = FALSE
    /\ txLen' = 0
    /\ txBuf' = [copied |-> 0, stamped |-> FALSE]
    /\ count' = [counter EXCEPT !.resets = @ + 1]

\* enc624j600_reset(&theGlobals->chip) in driverOpen
Open_Reset ==
    /\ TaskLevel("o_reset")
    /\ chipReset(count)
    /\ life' = [life EXCEPT !.at = openOrder[life.at], !.rxOn = FALSE]
    /\ lifeUntouched
    /\ UNCHANGED <<link_state, lastRx, dCtlStorage, info, protocolHandlers,
                   multicasts>>

\* enc624j600_init, the hardware address, and nextPkt
Open_Init ==
    /\ TaskLevel("o_init")
    /\ link_state' = enc624j600_duplex_sync(phyLinkUp)
    /\ rxRdPt' = enc624j600_ptr_to_addr(ENC624J600_BASE,
                     enc624j600_addr_to_ptr(ENC624J600_BASE, ENC_RX_BUF_START))
    /\ life' = [life EXCEPT !.at = openOrder[life.at]]
    /\ lifeUntouched
    /\ UNCHANGED <<eir, irqEnabled, hashFilter, pktCnt, ring, txRts, txLen,
                   txBuf, dCtlStorage, info, protocolHandlers, multicasts,
                   count>>

\* SIntInstall(&theGlobals->theSInt, dce->dCtlSlot)
Open_Install ==
    /\ TaskLevel("o_install")
    /\ life' = [life EXCEPT !.at = openOrder[life.at], !.sInt = TRUE]
    /\ count' = [count EXCEPT !.installs = @ + 1]
    /\ lifeUntouched
    /\ UNCHANGED <<eir, irqEnabled, hashFilter, link_state, rxVars, txRts,
                   txLen, txBuf, dCtlStorage, info, protocolHandlers,
                   multicasts>>

\* enc624j600_start(&theGlobals->chip)
Open_Start ==
    /\ TaskLevel("o_start")
    /\ life' = [life EXCEPT !.at = openOrder[life.at], !.rxOn = TRUE]
    /\ lifeUntouched
    /\ UNCHANGED <<eir, irqEnabled, hashFilter, link_state, rxVars, txRts,
                   txLen, txBuf, dCtlStorage, info, protocolHandlers,
                   multicasts, count>>

\* enc624j600_enable_irq(&theGlobals->chip, IRQ_ENABLE | ...)
Open_EnableIrq ==
    /\ TaskLevel("o_enable")
    /\ irqEnabled' = TRUE
    /\ life' = [life EXCEPT !.at = openOrder[life.at]]
    /\ lifeUntouched
    /\ UNCHANGED <<eir, hashFilter, link_state, rxVars, txRts, txLen, txBuf,
                   dCtlStorage, info, protocolHandlers, multicasts, count>>

\* enc624j600_reset(&theGlobals->chip) in driverClose
Close_Reset ==
    /\ TaskLevel("open")
    /\ chipReset(count)
    /\ life' = [life EXCEPT !.at = closeOrder[life.at], !.rxOn = FALSE]
    /\ lifeUntouched
    /\ UNCHANGED <<link_state, lastRx, dCtlStorage, info, protocolHandlers,
                   multicasts>>

\* SIntRemove(&theGlobals->theSInt, dce->dCtlSlot)
Close_Remove ==
    /\ TaskLevel("c_remove")
    /\ life' = [life EXCEPT !.at = closeOrder[life.at], !.sInt = FALSE]
    /\ lifeUntouched
    /\ UNCHANGED <<eir, irqEnabled, hashFilter, link_state, rxVars, txRts,
                   txLen, txBuf, dCtlStorage, info, protocolHandlers,
                   multicasts, count>>

\* DisposePtr((Ptr)theGlobals); dce->dCtlStorage = nil
Close_Dispose ==
    /\ TaskLevel("c_dispose")
    /\ dCtlStorage' = nil
    /\ life' = [life EXCEPT !.at = closeOrder[life.at]]
    /\ lifeUntouched
    /\ UNCHANGED <<eir, irqEnabled, hashFilter, link_state, rxVars, txRts,
                   txLen, txBuf, info, protocolHandlers, multicasts, count>>

\* A frame arrives once the controller has been started
Life_FrameArrives ==
    /\ life.rxOn
    /\ HwFrameArrives(IsrFrames)

\* The slot interrupt reaches driverISR only while it is installed
Life_DeferRefused == life.sInt /\ DriverISR_DeferRefused
Life_DeferAccepted == life.sInt /\ DriverISR_DeferAccepted
Life_Inline == life.sInt /\ DriverISR_Inline
Life_TopOnly == life.sInt /\ DriverISR_TopOnly

\* The machine is switched on with the driver closed, or the driver is open
\* and a frame has just been received
InitLife ==
    /\ variant \in Variants
    /\ vmEnabled \in BOOLEAN
    /\ \/ /\ life = Closed
          /\ dCtlStorage = nil
          /\ irqEnabled = FALSE
          /\ protocolHandlers = InitPHTable
          /\ ring = <<>>
          /\ count = ZeroCount
       \/ /\ life = Opened
          /\ dCtlStorage = theGlobals
          /\ irqEnabled = TRUE
          /\ protocolHandlers = IsrTable
          /\ ring \in {<<f>> : f \in IsrFrames}
          /\ count = [ZeroCount EXCEPT !.allocs = 1, !.resets = 1,
                                       !.installs = 1]
    /\ pktCnt = Len(ring)
    /\ multicasts = MulticastTableOf(<<>>)
    /\ hashFilter = hashOf(multicasts)
    /\ reg = RegOf(protocolHandlers, multicasts)
    /\ info = ZeroInfo
    /\ eir = {}
    /\ rxRdPt = ENC_RX_BUF_START
    /\ txRts = FALSE
    /\ txLen = 0
    /\ txBuf = [copied |-> 0, stamped |-> FALSE]
    /\ etxstat = [bits |-> {}, colcnt |-> 0]
    /\ phyLinkUp = TRUE
    /\ link_state = LINK_UP
    /\ pc = "idle"
    /\ irq_status = {}
    /\ inlineCall = FALSE
    /\ deferred = FALSE
    /\ ioOutstanding = FALSE
    /\ acked = {}
    /\ reraised = {}
    /\ lastRx = NoRx
    /\ ev = NoEv
    /\ refusedCauses = {}

NextLife ==
    \/ Open_Alloc
    \/ Open_InitPHTable
    \/ Open_Reset
    \/ Open_Init
    \/ Open_Install
    \/ Open_Start
    \/ Open_EnableIrq
    \/ Close_Reset
    \/ Close_Remove
    \/ Close_Dispose
    \/ Life_FrameArrives
    \/ HwLinkChange
    \/ Life_DeferRefused
    \/ Life_DeferAccepted
    \/ Life_Inline
    \/ Life_TopOnly
    \/ DriverISR_InlineReturn
    \/ RunDeferred
    \/ UserISR_Begin_p0
    \/ UserISR_Begin_isr
    \/ UserISR_Packet
    \/ UserISR_Exit

LifeSpec == InitLife /\ [][NextLife]_vars

(***************************************************************************)
(* Claims about the interrupt path, checked under Spec                     *)
(***************************************************************************)
\* The causes the controller presents now
PendingCauses == enc624j600_read_irqstate(eir, pktCnt)

\* The latest driver event is a completion signal
Signalled == ev.kind = "iodone"

\* The latest driver event is a dispatch whose deferral request was refused
Refused == ev.kind = "dispatch" /\ ev.deferral = "refused"

\* C6: in userISR of part_000, on the transmit-complete and the
\* transmit-abort path alike, the cause is acknowledged before IODone is
\* issued, and no completion is signalled while the cause it handles is set
\* (a cause found set at IODone is one the controller raised anew, for a
\* later transmission, after the acknowledge).
C6_AckBeforeDone_p0 ==
    (variant = "part_000" /\ Signalled) =>
        /\ ev.ackedFirst
        /\ ev.causeSet => ev.reraised
        /\ (ev.cause = IRQ_TX) => (ev.result = noErr)
        /\ (ev.cause = IRQ_TX_ABORT) => (ev.result = excessCollsns)

C6_Witness ==
    /\ variant = "part_000"
    /\ Signalled
    /\ ev.cause = IRQ_TX_ABORT
    /\ ev.ackedFirst
    /\ count.iodone = 2

\* C7: in userISR of isr.c, on the transmit-complete and the transmit-abort
\* path alike, the cause is acknowledged before IODone is issued, and no
\* completion is signalled while the cause it handles is set.
C7_AckBeforeDone_isr ==
    (variant = "isr_c" /\ Signalled) => (ev.ackedFirst /\ ~ev.causeSet)

\* C8: IODone is invoked at most once for each transmit that returned the
\* in-progress indication, and never while no transmit is outstanding, in
\* both variants, transmit-complete and transmit-abort pending together
\* included.
C8_DoneOncePerTransmit ==
    /\ Signalled => ev.wasOutstanding
    /\ count.iodone <= count.started

\* C9 as stated: after a refused deferral the cause is still un-acknowledged
\* and the controller's interrupts are masked.
C9_RefusedLeavesMasked ==
    refusedCauses # {} =>
        (refusedCauses \subseteq PendingCauses /\ ~irqEnabled)

\* C9, amended: after a refused deferral the cause is still un-acknowledged
\* and the controller's interrupts are enabled again, the driver is out of
\* its handler, and the very next dispatch re-observes the same cause.
C9_RefusedReobserved ==
    /\ refusedCauses # {} =>
          /\ refusedCauses \subseteq PendingCauses
          /\ irqEnabled
          /\ pc = "idle"
    /\ ev.kind = "dispatch" => ev.refusedBefore \subseteq ev.status

C9_Witness ==
    /\ ev.kind = "dispatch"
    /\ ev.deferral = "accepted"
    /\ ev.refusedBefore = {IRQ_TX_ABORT, IRQ_PKT}
    /\ ev.refusedBefore \subseteq ev.status

\* C10: a refused deferral re-enables the controller's interrupts and
\* returns 0; that dispatch neither runs nor queues a bottom half, clears no
\* transmit or packet cause, and signals no completion.
C10_RefusedReturnsUnhandled ==
    Refused =>
        /\ irqEnabled
        /\ ev.ret = 0
        /\ ~deferred
        /\ pc = "idle"
        /\ (ev.status \cap UserCauses) \subseteq PendingCauses
        /\ count.iodone = ev.iodone

C10_Witness ==
    /\ Refused
    /\ ev.status = {IRQ_LINK, IRQ_TX, IRQ_TX_ABORT}
    /\ IRQ_LINK \notin eir
    /\ irqEnabled

\* The bottom half is executing
InUserISR == pc \notin {"idle", "top_ret"}

\* C11: an accepted deferral returns 1 with the controller's interrupts
\* still masked, and they stay masked while the bottom half is queued and
\* while it runs, until its final unmask; the top half never unmasks here.
C11_AcceptedStaysMasked ==
    /\ (ev.kind = "dispatch" /\ ev.deferral = "accepted") =>
          (ev.ret = 1 /\ ~irqEnabled /\ deferred)
    /\ deferred => (~irqEnabled /\ pc = "idle")
    /\ (InUserISR /\ ~inlineCall) => ~irqEnabled

C11_Witness ==
    /\ deferred
    /\ ev.kind = "dispatch"
    /\ ev.deferral = "accepted"
    /\ IRQ_LINK \in eir
    /\ ~irqEnabled

(***************************************************************************)
(* Claims about one run of the bottom half, checked under UserSpec         *)
(***************************************************************************)
\* userISR has returned
UserReturned == ev.kind = "user_exit"

\* C12: every run of userISR, whatever causes it finds (none included),
\* ends by re-enabling the controller's interrupts before it returns.
C12_ExitUnmasks ==
    /\ UserReturned => irqEnabled
    /\ pc = "idle" => (UserReturned /\ irqEnabled)
    /\ InUserISR => ~irqEnabled

C12_Witness ==
    /\ UserReturned
    /\ pc = "idle"
    /\ irq_status = {}
    /\ irqEnabled

AbortCounter(txstat) ==
    IF ETXSTAT_EXDEFER \in txstat.bits THEN "excessiveDeferrals"
    ELSE IF ETXSTAT_MAXCOL \in txstat.bits THEN "excessiveCollisions"
    ELSE IF ETXSTAT_LATECOL \in txstat.bits THEN "lateCollisions"
    ELSE "internalTxErrors"

\* C19: on a transmit-abort cause the bottom half increments exactly one of
\* excessiveDeferrals, excessiveCollisions, lateCollisions, internalTxErrors,
\* picked by that precedence, and signals excessCollsns whichever was picked.
C19_AbortClassified ==
    /\ ev.kind = "tx_abort" =>
          /\ pc = "u_abort_iodone"
          /\ info = ev.after
          /\ \A f \in InfoFields :
                ev.after[f] = ev.before[f]
                              + (IF f = AbortCounter(ev.txstat) THEN 1 ELSE 0)
    /\ pc = "u_abort_iodone" => ev.kind = "tx_abort"
    /\ (Signalled /\ ev.cause = IRQ_TX_ABORT) => ev.result = excessCollsns

C19_Witness ==
    /\ ev.kind = "tx_abort"
    /\ ev.txstat.bits = {ETXSTAT_MAXCOL, ETXSTAT_LATECOL}
    /\ ev.after.excessiveCollisions = ev.before.excessiveCollisions + 1
    /\ ev.after.lateCollisions = ev.before.lateCollisions

(***************************************************************************)
(* Claims about doEWrite, checked under WriteSpec                          *)
(***************************************************************************)
\* The sum of the segment lengths of a scatter-list: the entries before the
\* first zero-length one
RECURSIVE ListTotal(_)
ListTotal(wds) ==
    IF wds = <<>> \/ Head(wds) = 0 THEN 0
    ELSE Head(wds) + ListTotal(Tail(wds))

\* The latest driver event is an ENetWrite
Written == ev.kind = "write"

\* The transmitter is as the call found it: nothing copied, no length
\* programmed, no transmission triggered
TxUntouched ==
    /\ txBuf = ev.before.txBuf
    /\ txLen = ev.before.txLen
    /\ txRts = ev.before.txRts

\* C14 as stated: with the link up, a scatter-list totalling 1515 bytes is
\* accepted (in-progress result, transmission started); one totalling 1516
\* bytes fails with eLenErr and nothing is written to the hardware.
C14_LengthBoundary ==
    /\ (Written /\ ListTotal(ev.wds) = 1515 /\ ev.link = LINK_UP) =>
          /\ ev.ret = 1
          /\ txRts
          /\ txLen = 1515
          /\ ioOutstanding
    /\ (Written /\ ListTotal(ev.wds) = 1516) =>
          /\ ev.ret = eLenErr
          /\ TxUntouched
          /\ ~ioOutstanding

\* C14, amended: with the link up, a scatter-list totalling 1514 bytes is
\* accepted (in-progress result, transmission started with that length);
\* one totalling 1515 bytes fails with eLenErr and nothing is written to
\* the hardware.
C14_LengthBoundary1514 ==
    /\ (Written /\ ListTotal(ev.wds) = 1514 /\ ev.link = LINK_UP) =>
          /\ ev.ret = 1
          /\ txRts
          /\ txLen = 1514
          /\ ioOutstanding
    /\ (Written /\ ListTotal(ev.wds) = 1515) =>
          /\ ev.ret = eLenErr
          /\ TxUntouched
          /\ ~ioOutstanding

C14_Witness ==
    /\ Written
    /\ ev.wds = <<14, 1500, 0>>
    /\ ev.ret = 1
    /\ txRts
    /\ txLen = 1514
    /\ count.writes = 2

\* C15: for every scatter-list, doEWrite returns eLenErr if and only if the
\* sum of its segment lengths plus 4 exceeds 1518, and when it returns
\* eLenErr nothing was copied, no register written, no transmission started.
C15_LengthErrorIff ==
    Written =>
        /\ (ev.ret = eLenErr) <=> (ListTotal(ev.wds) + 4 > 1518)
        /\ (ev.ret = eLenErr) => (TxUntouched /\ ~ioOutstanding)

\* C16: with a valid length and the link down, doEWrite returns a result
\* that is neither the success result nor the in-progress result, programs
\* no length, triggers no transmission, and leaves no completion owed.
C16_NoLinkDistinct ==
    (Written /\ ev.link = LINK_DOWN /\ ListTotal(ev.wds) + 4 <= 1518
             /\ Head(ev.wds) # 0) =>
        /\ ev.ret \notin {noErr, 1}
        /\ txLen = ev.before.txLen
        /\ txRts = ev.before.txRts
        /\ ~ioOutstanding

(***************************************************************************)
(* Further claims about handlePacket, checked under RxSpec                 *)
(***************************************************************************)
\* The latest frame matched the multicast hash filter only
RxHashMatchOnly ==
    /\ RSV_BIT_UNICAST \notin lastRx.frame.rsv.bits
    /\ RSV_BIT_BROADCAST \notin lastRx.frame.rsv.bits
    /\ RSV_BIT_MULTICAST \in lastRx.frame.rsv.bits
    /\ RSV_BIT_HASH_MATCH \in lastRx.frame.rsv.bits

\* The addresses in the Multicast Filter Table
MulticastAddresses ==
    {multicasts[i].address : i \in
        {j \in 1..numberofMulticasts : multicasts[j].refCount > 0}}

\* C17: in both variants a frame that matched the multicast hash filter only
\* is accepted and counted in multicastRxFrameCount only if its destination
\* is in the Multicast Filter Table; otherwise rxUnwanted goes up,
\* multicastRxFrameCount does not, and no handler is called.
C17_MulticastNeedsTableEntry ==
    (/\ lastRx.valid /\ ~RxCrcErr /\ RxLenInRange /\ RxHashMatchOnly
     /\ lastRx.frame.dest \notin MulticastAddresses) =>
        /\ RxDelta("rxUnwanted") = 1
        /\ RxDelta("multicastRxFrameCount") = 0
        /\ lastRx.calls = <<>>

\* The latest frame passed the length checks and the receive filter by its
\* unicast or broadcast bit
RxAccepted ==
    /\ ~RxCrcErr
    /\ RxLenInRange
    /\ \/ RSV_BIT_UNICAST \in lastRx.frame.rsv.bits
       \/ RSV_BIT_BROADCAST \in lastRx.frame.rsv.bits

\* C18: in both variants an accepted frame whose protocol identifier has no
\* registry entry, or an entry with a nil handler, adds exactly 1 to
\* rxUnknownProto, calls no handler and leaves rxFrameCount alone.
C18_UnknownProtoCounted ==
    (lastRx.valid /\ RxAccepted /\ RegisteredHandlers(RxProtocolId) = {}) =>
        /\ RxDelta("rxUnknownProto") = 1
        /\ lastRx.calls = <<>>
        /\ RxDelta("rxFrameCount") = 0

\* C20: whenever a dispatch observes the link-change cause, the top half
\* itself clears the cause and resynchronizes the duplex state from the PHY,
\* and the dispatch returns "handled" - also when a transmit or packet cause
\* is pending in the same dispatch and its deferral is refused.
C20_LinkHandledInTopHalf ==
    (ev.kind = "dispatch" /\ IRQ_LINK \in ev.status) =>
        /\ IRQ_LINK \in ev.top.cleared
        /\ ev.top.link_state = enc624j600_duplex_sync(ev.top.phy)
        /\ ev.ret = 1

(***************************************************************************)
(* Properties of the registry, the multicast table and the entry points    *)
(* (checked under CtlSpec)                                                 *)
(***************************************************************************)
ControlOf(csCode) == ev.kind = "control" /\ ev.csCode = csCode

\* The handler find(id) yields in a registry, or NoMatch
FoundHandler(table, id) ==
    IF findPH(table, id) = nil THEN NoMatch
    ELSE table[findPH(table, id)].handler

\* C21: attach(id, h2) while id is registered with h1 fails and leaves the
\* registry as it was (find(id) still yields h1); detach(id) of an identifier
\* that is not registered succeeds and leaves the registry as it was.
C21_DuplicateAttachRejected ==
    /\ (ControlOf(ENetAttachPH)
            /\ findPH(ev.before.protocolHandlers, ev.arg[1]) # nil) =>
        /\ ev.ret # noErr
        /\ protocolHandlers = ev.before.protocolHandlers
        /\ FoundHandler(protocolHandlers, ev.arg[1]) =
              FoundHandler(ev.before.protocolHandlers, ev.arg[1])
    /\ (ControlOf(ENetDetachPH)
            /\ findPH(ev.before.protocolHandlers, ev.arg[1]) = nil) =>
        /\ ev.ret = noErr
        /\ protocolHandlers = ev.before.protocolHandlers

\* A duplicate attach that names another handler than the registered one
C21_Witness ==
    /\ ControlOf(ENetAttachPH)
    /\ findPH(ev.before.protocolHandlers, ev.arg[1]) # nil
    /\ FoundHandler(ev.before.protocolHandlers, ev.arg[1]) # ev.arg[2]
    /\ ev.ret # noErr

\* C22: after any sequence of attach and detach calls at most one slot holds
\* any given identifier, and find(id) yields the handler of the last
\* successful attach(id) that no detach(id) followed, or no match.
C22_RegistryIsAMap ==
    dCtlStorage # nil =>
        /\ \A i, j \in 1..numberOfPhs :
              (i # j /\ protocolHandlers[i].ethertype =
                            protocolHandlers[j].ethertype) =>
                  protocolHandlers[i].ethertype = phProtocolFree
        /\ \A id \in PhIds : FoundHandler(protocolHandlers, id) = reg.ph[id]

\* An identifier is attached again after it was detached
C22_Witness ==
    /\ ControlOf(ENetAttachPH)
    /\ ev.ret = noErr
    /\ ev.regBefore.ph[ev.arg[1]] = NoMatch
    /\ count.controls >= 3
    /\ FoundHandler(protocolHandlers, ev.arg[1]) = ev.arg[2]
    /\ \E id \in CtlIds \ {ev.arg[1]} : reg.ph[id] = NoMatch

\* C23: after any sequence of multicast add and remove calls an address is
\* in the table iff its successful adds exceed its removes, its reference
\* count is that difference, and the hash filter is exactly the set of hash
\* bits of the addresses in the table; an add of a present address and a
\* remove that leaves a reference do not change the hash filter.
C23_MulticastRefcounts ==
    dCtlStorage # nil =>
        /\ \A a \in McastAddrs :
              /\ findMulticastEntry(multicasts, a) <=> reg.mc[a] > 0
              /\ findMulticastEntry(multicasts, a) =>
                    multicasts[multicastSlot(multicasts, a)].refCount =
                        reg.mc[a]
        /\ hashFilter = hashOf(multicasts)
        /\ (ControlOf(ENetAddMulti)
                /\ findMulticastEntry(ev.before.multicasts, ev.arg[1])) =>
              hashFilter = ev.before.hashFilter
        /\ (ControlOf(ENetDelMulti) /\ ev.regBefore.mc[ev.arg[1]] > 1) =>
              hashFilter = ev.before.hashFilter

\* C24: every occupied multicast slot has a reference count of at least 1,
\* also after 256 or more adds of one address: the 8-bit count never wraps
\* to 0 while the address is registered.
C24_RefcountNeverWraps ==
    dCtlStorage # nil =>
        /\ \A i \in 1..numberofMulticasts :
              multicasts[i].address # NoAddr => multicasts[i].refCount >= 1
        /\ \A a \in McastAddrs :
              reg.mc[a] > 0 => findMulticastEntry(multicasts, a)

\* C25: attach of a new identifier to a full registry, and add of a new
\* address to a full multicast table, fail and leave the table and the hash
\* filter as they were; add of a present address succeeds on a full table.
C25_FullTablesRefuse ==
    /\ (ControlOf(ENetAttachPH)
            /\ firstFreePH(ev.before.protocolHandlers) = nil
            /\ findPH(ev.before.protocolHandlers, ev.arg[1]) = nil) =>
        /\ ev.ret # noErr
        /\ protocolHandlers = ev.before.protocolHandlers
    /\ (ControlOf(ENetAddMulti)
            /\ freeMulticastSlot(ev.before.multicasts) = nil) =>
        IF findMulticastEntry(ev.before.multicasts, ev.arg[1])
        THEN ev.ret = noErr
        ELSE /\ ev.ret # noErr
             /\ multicasts = ev.before.multicasts
             /\ hashFilter = ev.before.hashFilter

\* A new identifier is refused by a registry whose last slot an earlier call
\* of the behaviour filled
C25_Witness ==
    /\ ControlOf(ENetAttachPH)
    /\ firstFreePH(ev.before.protocolHandlers) = nil
    /\ findPH(ev.before.protocolHandlers, ev.arg[1]) = nil
    /\ ev.ret # noErr
    /\ reg.ph[phProtocolPhaseII] # NoMatch
    /\ count.controls >= 2

\* C26: driverOpen on an open driver returns success and changes nothing:
\* nothing is allocated, the controller is not reset, the interrupt handler
\* is not installed again, and the registry, the multicast table and the
\* statistics keep their values.
C26_OpenIdempotent ==
    (ev.kind = "driverOpen" /\ ev.before.dCtlStorage # nil) =>
        /\ ev.ret = noErr
        /\ driverState = ev.before
        /\ reg = ev.regBefore

\* A second open of a driver with registrations and counted errors
C26_Witness ==
    /\ ev.kind = "driverOpen"
    /\ ev.before.dCtlStorage # nil
    /\ info # ZeroInfo
    /\ protocolHandlers # InitPHTable
    /\ multicasts # MulticastTableWith(<<>>)
    /\ count.controls >= 2

\* C27: a control call with an unrecognized code, with ENetRead or with
\* ENetRdCancel returns controlErr at once and leaves the driver state and
\* the hardware as they were.
C27_UnsupportedControl ==
    (ev.kind = "control"
        /\ ev.csCode \in {ENetRead, ENetRdCancel, csUnhandled}) =>
        /\ ev.ret = controlErr
        /\ driverState = ev.before
        /\ reg = ev.regBefore

\* ENetRead on a driver whose registry has no entry for the sentinel
C27_Witness ==
    /\ ControlOf(ENetRead)
    /\ findPH(protocolHandlers, phProtocolPhaseII) = nil
    /\ ev.ret = controlErr

(***************************************************************************)
(* Progress of the interrupt path (checked under LiveSpec) and masking     *)
(***************************************************************************)
\* C28: every transmit that returned the in-progress indication eventually
\* has its completion signalled, given that the controller ends every
\* transmission and a deferral is eventually accepted - also when the next
\* transmit is started from inside the completion signal of the previous
\* one (its cause is not cleared by the handling of the old one); in both
\* variants of the interrupt code.
C28_TransmitCompletes ==
    \A n \in 1..MaxWrites : (count.started >= n) ~> (count.iodone >= n)

\* C29: if a transmit or packet cause is pending and the deferral is refused
\* any finite number of times before it is accepted, the cause is eventually
\* handled by the bottom half and the interrupts are eventually unmasked by
\* it; and no state has the interrupts masked with no bottom half pending
\* or running.
C29_RefusedEventuallyHandled ==
    /\ [](~irqEnabled => (pc # "idle" \/ deferred))
    /\ \A c \in {IRQ_TX, IRQ_TX_ABORT} :
          (c \in refusedCauses) ~> (c \in acked)
    /\ (IRQ_PKT \in refusedCauses) ~>
          (ev.kind = "user_exit" /\ ev.pktCnt = 0)
    /\ (refusedCauses # {}) ~> (ev.kind = "user_exit" /\ irqEnabled)

\* A deferral is accepted for causes whose deferral was refused before
C29_Witness ==
    /\ ev.kind = "dispatch"
    /\ ev.deferral = "accepted"
    /\ ev.refusedBefore # {}
    /\ ev.refusedBefore \subseteq ev.status
    /\ deferred
    /\ ~irqEnabled

\* C30: controller interrupts are masked in every state in which top-half
\* or bottom-half code is executing; in the inline path the top half is
\* never still executing after the bottom half has unmasked.
C30_MaskedWhileExecuting == pc # "idle" => ~irqEnabled

(***************************************************************************)
(* Reentrancy of the bottom half                                           *)
(***************************************************************************)
\* C31: at most one bottom half is pending or running at any time: between
\* the acceptance of a deferral (or the inline call) and the end of that
\* bottom half no dispatch queues or calls a second one, so handlePacket
\* and the protocol handlers are never entered while a previous invocation
\* has not returned.
C31_OneBottomHalf ==
    /\ count.bottomHalves <= 1
    /\ ~(deferred /\ InUserISR)
    /\ (deferred \/ InUserISR) <=> count.bottomHalves = 1
    /\ (deferred \/ (InUserISR /\ ~inlineCall)) => ~InterruptTaken

\* A deferred bottom half is running and a frame has arrived since it began
C31_Witness ==
    /\ InUserISR
    /\ ~inlineCall
    /\ count.bottomHalves = 1
    /\ count.arrived > count.runArrived
    /\ pktCnt > 0

(***************************************************************************)
(* Receive statistics, ring pointer and pending count                      *)
(***************************************************************************)
\* The outcome counters of handlePacket
OutcomeCounters ==
    {"fcsErrors", "rxRunt", "rxTooLong", "rxUnwanted", "rxUnknownProto",
     "rxFrameCount"}

\* The address-filter reject condition: the status vector reports neither a
\* unicast match, nor a broadcast, nor a multicast with a hash match
RxFilterRejects ==
    LET bits == lastRx.frame.rsv.bits
    IN  /\ RSV_BIT_UNICAST \notin bits
        /\ RSV_BIT_BROADCAST \notin bits
        /\ ~(RSV_BIT_MULTICAST \in bits /\ RSV_BIT_HASH_MATCH \in bits)

\* The counter the fixed precedence CRC error, runt, too long, address
\* filter, protocol lookup selects for the frame just handled
RxOutcomeByPrecedence ==
    IF RxCrcErr THEN "fcsErrors"
    ELSE IF RxFrameLen < 60 THEN "rxRunt"
    ELSE IF RxFrameLen > 1514 THEN "rxTooLong"
    ELSE IF RxFilterRejects THEN "rxUnwanted"
    ELSE IF RegisteredHandlers(RxProtocolId) = {} THEN "rxUnknownProto"
    ELSE "rxFrameCount"

\* C33: in handlePacket of part_000 each invocation increments exactly one
\* of the outcome counters (rxFrameCount iff a handler was invoked), and
\* when several reject conditions hold the counter is chosen by the fixed
\* precedence CRC error, runt, too long, address filter, protocol lookup.
C33_OneOutcomeCounter ==
    (lastRx.valid /\ variant = "part_000") =>
        /\ \A c \in OutcomeCounters : RxDelta(c) \in {0, 1}
        /\ Cardinality({c \in OutcomeCounters : RxDelta(c) = 1}) = 1
        /\ (RxDelta("rxFrameCount") = 1) <=> (lastRx.calls # <<>>)
        /\ RxDelta(RxOutcomeByPrecedence) = 1

(***************************************************************************)
(* doEWrite: the scatter-list and the transmit buffer (WriteSpec)          *)
(***************************************************************************)
\* C34: for every scatter-list, also one whose first segment is already the
\* zero-length sentinel, the length computation and the copy both stop at
\* the first zero-length segment: the length checked and programmed equals
\* the bytes copied, which equals the sum of the segment lengths before
\* the first sentinel; nothing after the sentinel is read.
C34_StopsAtSentinel ==
    Written =>
        /\ (ev.ret = eLenErr) => (ListTotal(ev.wds) + 4 > 1518)
        /\ (ev.ret # eLenErr) => txBuf.copied = ListTotal(ev.wds)
        /\ (ev.ret = 1) => (txLen = txBuf.copied /\ txLen = ListTotal(ev.wds))

(***************************************************************************)
(* The pending-packet counter and the ring read pointer                    *)
(***************************************************************************)
\* C35: handlePacket is only ever invoked while the pending-packet counter
\* is nonzero, so the counter is never decremented at zero, over every
\* sequence of dispatches, deferrals and packet arrivals.
C35_NeverDecrementedAtZero ==
    /\ pktCnt >= 0
    /\ pktCnt = Len(ring)
    /\ lastRx.valid =>
          /\ lastRx.pktCntBefore > 0
          /\ lastRx.pktCntAfter = lastRx.pktCntBefore - 1

\* A deferred bottom half has handled the one pending packet and returned
C35_Witness ==
    /\ lastRx.valid
    /\ lastRx.pktCntBefore = 1
    /\ pktCnt = 0
    /\ vmEnabled
    /\ ev.kind = "user_exit"
    /\ ev.handled = 1

\* The receive region: from the receive-buffer start to the end of the
\* controller's memory
InRxRegion(addr) ==
    addr >= ENC_RX_BUF_START /\ addr < ENC_RX_BUF_START + ENC_RX_BUF_SIZE

TxWriteEnd ==
    IF txBuf.stamped /\ txBuf.copied < 12 THEN 12 ELSE txBuf.copied

\* C37: every byte doEWrite writes to controller memory lies inside the
\* 1536-byte transmit buffer [0x0000, 0x0600): for every scatter-list that
\* passes the length check neither the segment copy nor the 6-byte
\* source-address overwrite at offset 6 writes into the receive ring (and a
\* list that fails the check writes nothing).
C37_WritesInsideTxBuffer ==
    /\ ENC_TX_BUF_START + TxWriteEnd <= ENC_RX_BUF_START
    /\ (Written /\ ev.ret = eLenErr) => txBuf = ev.before.txBuf
    /\ (Written /\ ev.ret # eLenErr) =>
          (txBuf.stamped /\ txBuf.copied <= 1514)

(***************************************************************************)
(* The statistics (UserSpec)                                               *)
(***************************************************************************)
HighWaterMarks == {"rxPendingPacketsHWM", "rxPendingBytesHWM"}

\* The larger of two readings
Larger(a, b) == IF a > b THEN a ELSE b

\* C38: between Open and Close no statistics counter ever decreases, and
\* the high-water marks rxPendingPacketsHWM and rxPendingBytesHWM are at
\* every moment at least as large as every pending-packet count and FIFO
\* byte level that a handlePacket invocation has observed; updating them
\* changes no other state.
C38_CountersMonotone ==
    /\ [][\A f \in InfoFields : info'[f] >= info[f]]_vars
    /\ [](lastRx.valid =>
            /\ info.rxPendingPacketsHWM >= lastRx.pktCntBefore
            /\ info.rxPendingBytesHWM >= lastRx.bytesPending
            /\ lastRx.infoAfter.rxPendingPacketsHWM =
                  Larger(lastRx.infoBefore.rxPendingPacketsHWM,
                         lastRx.pktCntBefore)
            /\ lastRx.infoAfter.rxPendingBytesHWM =
                  Larger(lastRx.infoBefore.rxPendingBytesHWM,
                         lastRx.bytesPending)
            /\ \A f \in InfoFields \ HighWaterMarks :
                  lastRx.infoAfter[f] - lastRx.infoBefore[f] \in {0, 1})

\* The second of two pending packets has been handled: the marks stand
\* above what this invocation observed
C38_Witness ==
    /\ lastRx.valid
    /\ lastRx.pktCntBefore = 1
    /\ info.rxPendingPacketsHWM = 2
    /\ info.rxPendingBytesHWM > lastRx.bytesPending
    /\ info.rxFrameCount = 2

(***************************************************************************)
(* Claims about opening and closing, checked under LifeSpec                *)
(***************************************************************************)
\* C32: a bottom half whose deferral was accepted before Close never
\* executes after driverClose has freed the driver state, in every
\* interleaving of dispatch, deferred execution and Close: whenever userISR
\* runs, the driver state it works on is allocated.
C32_NoBottomHalfAfterClose == InUserISR => dCtlStorage # nil

\* driverOpen enables the controller's interrupts in its last statement
\* only: a step of driverOpen or driverClose that leaves them enabled where
\* they were disabled ends driverOpen.
Open_EnablesLast ==
    [][(life' # life /\ ~irqEnabled /\ irqEnabled') => life'.at = "open"]_vars

\* A dispatch can start only on a driver that is fully open
DispatchOnlyWhenOpen == (life.sInt /\ InterruptTaken) => life.at = "open"

====
